---- MODULE Spec2Model ----
(***************************************************************************)
(* A model of omero2pandas: the table fetch operations of                  *)
(* omero2pandas/__init__.py, the push engine and schema inference of       *)
(* omero2pandas/upload.py and the connector of omero2pandas/connect.py.    *)
(*                                                                         *)
(* Python values are encoded as follows.  An optional value (None or a     *)
(* value v) is the set {} or {v}.  Row numbers are 0-based as in the       *)
(* source; column positions and sequence positions are 1-based.  A remote  *)
(* call is recorded by appending its name to a call log, so that "never    *)
(* called", "called once" and "called before" are statements about a log.  *)
(***************************************************************************)
EXTENDS Integers, Sequences, FiniteSets, TLC

(* ----------------------------- bounds ---------------------------------- *)
\* Largest object identifier drawn for file_id / annotation_id.
MaxId == 1
\* Largest number of rows of a remote table.
MaxRows == 3
\* Largest chunk size drawn for a fetch.
MaxChunk == 3
\* Largest number of rows of a local table that is pushed.
MaxSourceRows == 3
\* Largest chunk size drawn for a push.
MaxPushChunk == 2
\* Largest number of operations invoked on a connector.
MaxOps == 4
\* Largest nesting of with-blocks on a connector.
MaxDepth == 2
\* Largest number of rows of the source of an artifact.
MaxArtRows == 2
\* Largest small number of columns a chunk size is computed for.
MaxColumnCount == 60
\* Largest number of connectors in the registry at process exit.
MaxConnectors == 3

(* --------------------------- generic helpers --------------------------- *)
None == {}
Some(v) == {v}
IsNone(o) == o = {}
The(o) == CHOOSE v \in o : TRUE
Min(a, b) == IF a < b THEN a ELSE b
Max(a, b) == IF a > b THEN a ELSE b
\* Python range(a, b) as a sequence.
Range(a, b) == [i \in 1..(IF b > a THEN b - a ELSE 0) |-> a + i - 1]
\* Python seq[a:b] on a 0-based sequence.
Slice(s, a, b) == SubSeq(s, a + 1, Min(b, Len(s)))
\* How often name n occurs in call log c.
Count(c, n) == Cardinality({i \in 1..Len(c) : c[i] = n})
\* Position of the first occurrence of n in c (0 when absent).
First(c, n) == IF \E i \in 1..Len(c) : c[i] = n
               THEN CHOOSE i \in 1..Len(c) : c[i] = n /\ \A j \in 1..(i - 1) : c[j] # n
               ELSE 0
SeqToSet(s) == {s[i] : i \in 1..Len(s)}

(* ------------------------------ state ---------------------------------- *)
VARIABLES
  \* ---- a table fetch call (read_table, download_table, get_table_size,
  \* ---- get_table_columns)
  f_op,            \* which of the four functions is called
  file_id,         \* argument file_id (optional int)
  annotation_id,   \* argument annotation_id (optional int)
  f_mode,          \* row addressing requested: range, rows, query or both
  omero_connector, \* argument omero_connector: None or a connected client
  f_pc,            \* position of the call
  object_id,       \* result of _validate_requested_object
  object_type,
  f_table,         \* rows of the remote table behind the opened handle
  column_names,    \* argument column_names
  rows,            \* rows (optional list of row numbers)
  chunk_size,      \* argument chunk_size
  target_cols,     \* column positions requested from the server
  num_rows,
  start,           \* loop variable of the download loop
  data_buffer,     \* read_table: accumulated columns
  index_buffer,    \* read_table: accumulated returned row numbers
  df,              \* read_table: the DataFrame returned
  csv,             \* download_table: the frames appended to the target file
  f_result,        \* value returned by get_table_size / get_table_columns
  f_calls,         \* log of remote calls made by the fetch call
  f_warnings,      \* log of LOGGER.warning payloads
  f_file,          \* mimetype of the file the lookup returned, if any
  f_error,         \* the exception raised by the fetch call, if any
  \* ---- a call of create_table(source, table_name, links, conn, chunk_size)
  p_kind,          \* the source is a DataFrame ("frame") or a CSV path ("csv")
  p_dtypes,        \* name and dtype kind of each source column
  p_data,          \* the rows of the source
  p_links,         \* argument links
  p_chunk_arg,     \* argument chunk_size (optional)
  p_pc,            \* position of the call
  working_group,
  columns,         \* the OMERO column objects
  str_cols,
  total_rows,
  p_chunk,         \* chunk_size in effect
  p_next,          \* row offset of the next chunk of iter_data
  table,           \* the new remote table: None until newTable returns
  p_calls,         \* log of remote calls made by create_table
  p_reads,         \* log of reads of the source
  p_warnings,      \* log of LOGGER.warning calls
  r_init,          \* descriptors the remote table was initialised with
  r_sent,          \* per addData: the descriptors sent and the number of rows
  r_rows,          \* rows stored in the remote table
  p_result,        \* the annotation id returned
  r_links,         \* the links the server holds for the new annotation
  r_linkfail,      \* position of the link the server refused, if any
  r_annotation,    \* the FileAnnotation the server saved, if any
  \* ---- an OMEROConnection and the clients it has held
  conn,            \* the fields of the connector
  sessions,        \* per client object: how often closeSession was called
  token,           \* what omero_user_token would find
  c_depth,         \* with-blocks entered and not yet left
  c_last,          \* the operation that ran last, and the one before
  c_prev,
  c_ret,           \* what the last operation returned
  c_raised,        \* the last operation raised
  c_calls,         \* remote calls made by the last operation
  c_ops,           \* operations invoked so far
  c_init,          \* the arguments the connector was constructed with
  c_arg,           \* the arguments of the last operation
  c_temp,          \* the clients created by __enter__
  \* ---- create_remote_table: the artifact and its registration
  t_in,            \* the arguments and the environment of the call
  t_pc,            \* position in create_remote_table
  t_paths,         \* write_path and remote_path once resolved
  t_art,           \* the artifact at write_path: None or its rows and metadata
  t_written,       \* row_idx: source rows written so far
  t_token,         \* security_token once generated
  t_csrf,          \* the anti-forgery token taken from the GET
  t_http,          \* the HTTP requests sent, in order
  t_resp,          \* the responses received, in order
  t_log,           \* the log records written, in order
  t_result,        \* the annotation id returned
  t_error,         \* the exception raised
  \* ---- the chunk size of a push, settled on its own
  s_count,         \* column_count
  s_arg,           \* argument chunk_size (optional)
  s_pc,            \* position: before or after the chunk size is settled
  s_size,          \* the effective chunk size
  s_log,           \* log of LOGGER.warning calls
  \* ---- cleanup_sessions over the registry ACTIVE_CONNECTORS
  w_reg,           \* the connectors of the registry, in iteration order
  w_sessions,      \* per client: how many times its session was closed
  w_kinds,         \* what each connector was when the sweep began
  w_broken,        \* the clients whose closeSession raises
  w_pos,           \* how many connectors the loop has taken
  w_tried,         \* the connectors shutdown() was called on, in order
  w_pc,            \* position: sweeping, returned or raised
  \* ---- upload_table: the arguments checked and coerced
  u_name_ok,       \* table_name is a non-empty string
  u_given,         \* the caller's links collection: its shape and items
  u_parent,        \* (parent_type, parent_id), None without parent_id
  u_links,         \* local links once coerced
  u_pc,            \* position in upload_table
  u_error          \* the exception raised

fvars == <<f_op, file_id, annotation_id, f_mode, omero_connector, f_pc, object_id, object_type,
           f_table, column_names, rows, chunk_size, target_cols, num_rows,
           start, data_buffer, index_buffer, df, csv, f_result, f_calls,
           f_warnings, f_file, f_error>>

pvars == <<p_kind, p_dtypes, p_data, p_links, p_chunk_arg, p_pc, working_group,
           columns, str_cols, total_rows, p_chunk, p_next, table, p_calls,
           p_reads, p_warnings, r_init, r_sent, r_rows, p_result, r_links,
           r_linkfail, r_annotation>>

cvars == <<conn, sessions, token, c_depth, c_last, c_prev, c_ret, c_raised,
           c_calls, c_ops, c_init, c_arg, c_temp>>

tvars == <<t_in, t_pc, t_paths, t_art, t_written, t_token, t_csrf, t_http,
           t_resp, t_log, t_result, t_error>>

svars == <<s_count, s_arg, s_pc, s_size, s_log>>

wvars == <<w_reg, w_sessions, w_kinds, w_broken, w_pos, w_tried, w_pc>>

uvars == <<u_name_ok, u_given, u_parent, u_links, u_pc, u_error>>

vars == <<fvars, pvars, cvars, tvars, svars, wvars, uvars>>
\* What a fetch call, a push, a connector operation and a registration
\* leave alone.
NotFetch == <<pvars, cvars, tvars, svars, wvars, uvars>>
NotPush == <<fvars, cvars, tvars, svars, wvars, uvars>>
NotConn == <<fvars, pvars, tvars, svars, wvars, uvars>>
NotRemote == <<fvars, pvars, cvars, svars, wvars, uvars>>
NotSize == <<fvars, pvars, cvars, tvars, wvars, uvars>>
NotSweep == <<fvars, pvars, cvars, tvars, svars, uvars>>
NotUpload == <<fvars, pvars, cvars, tvars, svars, wvars>>

(* ------------------------- the remote table ---------------------------- *)
\* Column names of the remote table, as getHeaders() returns them.
Heads == <<"a", "b">>
\* The rows a remote table may hold: the two columns always differ, so a
\* swap of columns and a reordering of distinct rows are both visible.
RowValues == {<<0, 1>>, <<1, 0>>}
Tables == UNION {[1..n -> RowValues] : n \in 0..MaxRows}

\* data_table.read(cols, start, stop): rows start..stop-1 of the requested
\* columns, labelled with their row numbers.
TableRead(t, cols, first, stop) ==
  [columns |-> [k \in 1..Len(cols) |->
                  [name |-> Heads[cols[k]],
                   values |-> [i \in 1..(IF stop > first THEN stop - first ELSE 0)
                                 |-> t[first + i][cols[k]]]]],
   rowNumbers |-> Range(first, stop)]

\* data_table.slice(cols, rowNumbers): the values of the rows that exist;
\* the row numbers are echoed back even for rows that do not exist.
TableSlice(t, cols, idx) ==
  LET present == SelectSeq(idx, LAMBDA r : r < Len(t)) IN
  [columns |-> [k \in 1..Len(cols) |->
                  [name |-> Heads[cols[k]],
                   values |-> [i \in 1..Len(present) |-> t[present[i] + 1][cols[k]]]]],
   rowNumbers |-> idx]

\* data_table.getWhereList(query, ...): the row numbers, in table order, of
\* the rows the condition selects (here: column "a" holds 1).
TableWhereList(t) == SelectSeq(Range(0, Len(t)), LAMBDA r : t[r + 1][1] = 1)

(* ---------------------- omero2pandas/__init__.py ----------------------- *)
Ops == {"read_table", "download_table", "get_table_size", "get_table_columns"}
WindowOps == {"read_table", "download_table"}
IdChoices == {None} \cup {Some(i) : i \in 0..MaxId}
\* Python truthiness of an optional int: None and 0 are falsy.
Truthy(o) == ~IsNone(o) /\ The(o) # 0

\* _validate_requested_object(file_id, annotation_id) for int or None
\* arguments: ok = FALSE stands for the ValueError raised.
_validate_requested_object(fid, aid) ==
  IF Truthy(fid) /\ Truthy(aid)
    THEN [ok |-> FALSE, object_id |-> None, object_type |-> "none"]
  ELSE IF ~IsNone(fid)
    THEN [ok |-> TRUE, object_id |-> fid, object_type |-> "OriginalFile"]
  ELSE IF ~IsNone(aid)
    THEN [ok |-> TRUE, object_id |-> aid, object_type |-> "FileAnnotation"]
  ELSE [ok |-> FALSE, object_id |-> None, object_type |-> "none"]

\* [i for i, col in enumerate(heads) if col.name in column_names], or every
\* column when column_names is empty.
TargetCols(heads, names) ==
  IF Len(names) # 0
    THEN SelectSeq(Range(1, Len(heads) + 1), LAMBDA i : heads[i] \in SeqToSet(names))
    ELSE Range(1, Len(heads) + 1)

\* set(column_names) - set(present_cols)
MissingCols(heads, names) == SeqToSet(names) \ SeqToSet(heads)

\* The warnings logged while validating the requested columns.
ColumnWarnings(heads, names) ==
  IF Len(names) # 0 /\ Len(TargetCols(heads, names)) # Len(names)
    THEN <<MissingCols(heads, names)>>
    ELSE <<>>

\* end = min(start + chunk_size, num_rows)
WindowEndSkew(first, chunk, n) == Min(first + chunk, n) - 1
WindowEnd(first, chunk, n) == Min(first + chunk, n)

\* The window fetched for loop value start.
FetchData(t, cols, rws, first, chunk, n) ==
  IF IsNone(rws)
    THEN TableRead(t, cols, first, WindowEnd(first, chunk, n))
    ELSE TableSlice(t, cols, Slice(The(rws), first, first + chunk))

\* data_buffer[col.name] += col.values on a dict kept in insertion order.
BufferAdd(buf, col) ==
  IF \E k \in 1..Len(buf) : buf[k].name = col.name
    THEN [k \in 1..Len(buf) |->
            IF buf[k].name = col.name
              THEN [name |-> col.name, values |-> buf[k].values \o col.values]
              ELSE buf[k]]
    ELSE Append(buf, col)

RECURSIVE BufferAddAll(_, _)
BufferAddAll(buf, cols) ==
  IF cols = <<>> THEN buf
  ELSE BufferAddAll(BufferAdd(buf, Head(cols)), Tail(cols))

\* len(df) of pandas.DataFrame.from_dict(buffer)
FrameLen(buf) == IF buf = <<>> THEN 0 ELSE Len(buf[1].values)

\* df = DataFrame.from_dict(buffer); df.index = index[0: len(df)]
FrameNoTruncate(buf, index) == [columns |-> buf, index |-> index]
Frame(buf, index) == [columns |-> buf, index |-> Slice(index, 0, FrameLen(buf))]
EmptyFrame == [columns |-> <<>>, index |-> <<>>]

\* __exit__ of the with-block: a session created by __enter__ is shut
\* down, a client supplied by the caller is left alone.
ExitScope(calls) ==
  IF IsNone(omero_connector) THEN Append(calls, "closeSession") ELSE calls

\* The arguments drawn for column_names and rows.  "z" names no column of the
\* table; row number MaxRows exists in no table.
ColumnNameChoices == {<<>>, <<"a">>, <<"b", "a">>, <<"a", "z">>, <<"z">>}
RowLists == {<<>>, <<0>>, <<1, 0>>, <<0, 2, 1>>, <<1, MaxRows>>}
Modes == {"range", "rows", "query", "both"}
HasQuery == f_mode \in {"query", "both"}

FetchInit(fids, aids, tables, names, chunks) ==
  /\ f_op \in Ops
  /\ file_id \in fids
  /\ annotation_id \in aids
  /\ f_mode \in Modes
  /\ omero_connector \in {None, Some("client")}
  /\ f_table \in tables
  /\ column_names \in names
  /\ rows \in (IF f_mode \in {"rows", "both"} THEN {Some(r) : r \in RowLists} ELSE {None})
  /\ chunk_size \in chunks
  /\ f_op \in WindowOps \/ (f_mode = "range" /\ column_names = <<>> /\ chunk_size = 1)
  /\ f_pc = "start"
  /\ object_id = None
  /\ object_type = "none"
  /\ target_cols = <<>>
  /\ num_rows = 0
  /\ start = 0
  /\ data_buffer = <<>>
  /\ index_buffer = <<>>
  /\ df = None
  /\ csv = <<>>
  /\ f_result = None
  /\ f_calls = <<>>
  /\ f_warnings = <<>>
  /\ f_file = None
  /\ f_error = None

\* read_table lines 123-125, download_table lines 294-296: rows and query
\* are both given.
both_suppliedNever(rws, has_query) == FALSE
both_supplied(rws, has_query) == ~IsNone(rws) /\ has_query

\* read_table / download_table lines 123-127 and 294-298, get_table_size and
\* get_table_columns lines 56-57 and 81-82: the argument checks made before
\* the connection is requested.
FetchValidate ==
  /\ f_pc = "start"
  /\ LET r == _validate_requested_object(file_id, annotation_id) IN
     IF f_op \in WindowOps /\ both_supplied(rows, HasQuery)
       THEN /\ f_pc' = "error"
            /\ f_error' = Some("ValueError")
            /\ UNCHANGED <<object_id, object_type>>
     ELSE IF ~r.ok
       THEN /\ f_pc' = "error"
            /\ f_error' = Some("ValueError")
            /\ UNCHANGED <<object_id, object_type>>
     ELSE /\ f_pc' = "validated"
          /\ object_id' = r.object_id
          /\ object_type' = r.object_type
          /\ UNCHANGED f_error
  /\ UNCHANGED <<NotFetch, f_file, f_op, file_id, annotation_id, f_mode, omero_connector, f_table, column_names,
                 rows, chunk_size, target_cols, num_rows, start, data_buffer,
                 index_buffer, df, csv, f_result, f_calls, f_warnings>>

\* with get_connection(...) as connector: conn = connector.get_gateway().
\* download_table first asserts that the target path does not exist.  The
\* temporary session is created by __enter__; when that fails the body of
\* the with-block does not run.  A client supplied by the caller is used
\* as it is.
FetchConnect ==
  /\ f_pc = "validated"
  /\ \E outcome \in {"ok", "exists", "refused"} :
       CASE outcome = "exists" ->
              /\ f_op = "download_table"
              /\ f_pc' = "error"
              /\ f_error' = Some("AssertionError")
              /\ f_calls' = f_calls
         [] outcome = "refused" ->
              /\ IsNone(omero_connector)
              /\ f_pc' = "error"
              /\ f_error' = Some("Exception")
              /\ f_calls' = f_calls \o <<"get_connection", "createSession">>
         [] OTHER ->
              /\ f_pc' = "connected"
              /\ UNCHANGED f_error
              /\ f_calls' = IF IsNone(omero_connector)
                              THEN f_calls \o <<"get_connection", "createSession">>
                              ELSE Append(f_calls, "get_connection")
  /\ UNCHANGED <<NotFetch, f_file, f_op, file_id, annotation_id, f_mode, omero_connector, object_id, object_type,
                 f_table, column_names, rows, chunk_size, target_cols, num_rows,
                 start, data_buffer, index_buffer, df, csv, f_result, f_warnings>>

\* _get_original_file: the lookup made for the object type.
_get_original_file(type) ==
  IF type = "FileAnnotation" THEN <<"findByQuery">> ELSE <<"find">>

\* The mimetypes the file found may have.
Mimetypes == {"OMERO.tables", "text/csv"}

\* _get_table: look the file up, check its mimetype, open the table.  found
\* and mimetype are the server's answer to the lookup.
_get_tableNoCheck(type, found, mimetype) ==
  IF ~found
    THEN [ok |-> FALSE, calls |-> _get_original_file(type),
          raised |-> Some("AssertionError")]
  ELSE [ok |-> TRUE,
        calls |-> _get_original_file(type) \o <<"sharedResources", "openTable">>,
        raised |-> None]
_get_table(type, found, mimetype) ==
  IF ~found
    THEN [ok |-> FALSE, calls |-> _get_original_file(type),
          raised |-> Some("AssertionError")]
  ELSE IF mimetype # "OMERO.tables"
    THEN [ok |-> FALSE, calls |-> _get_original_file(type),
          raised |-> Some("ValueError: not a valid OMERO.tables object")]
  ELSE [ok |-> TRUE,
        calls |-> _get_original_file(type) \o <<"sharedResources", "openTable">>,
        raised |-> None]

FetchGetTable ==
  /\ f_pc = "connected"
  /\ \E found \in BOOLEAN, mimetype \in Mimetypes :
       LET r == _get_table(object_type, found, mimetype) IN
       /\ f_file' = IF found THEN Some(mimetype) ELSE None
       /\ f_error' = r.raised
       /\ IF r.ok
            THEN /\ f_pc' = "opened"
                 /\ f_calls' = f_calls \o r.calls
            ELSE /\ f_pc' = "error"
                 /\ f_calls' = ExitScope(f_calls \o r.calls)
  /\ UNCHANGED <<NotFetch, f_op, file_id, annotation_id, f_mode, omero_connector, object_id, object_type,
                 f_table, column_names, rows, chunk_size, target_cols, num_rows,
                 start, data_buffer, index_buffer, df, csv, f_result, f_warnings>>

\* get_table_size lines 59-61.
FetchSize ==
  /\ f_pc = "opened"
  /\ f_op = "get_table_size"
  /\ f_result' = Some(<<Len(f_table), Len(Heads)>>)
  /\ f_calls' = ExitScope(f_calls \o <<"getNumberOfRows", "getHeaders">>)
  /\ f_pc' = "done"
  /\ UNCHANGED <<NotFetch, f_file, f_error, f_op, file_id, annotation_id, f_mode, omero_connector, object_id, object_type,
                 f_table, column_names, rows, chunk_size, target_cols, num_rows,
                 start, data_buffer, index_buffer, df, csv, f_warnings>>

\* get_table_columns lines 87-90, and the column validation of read_table
\* (lines 135-146) and download_table (lines 310-321).
FetchHeaders ==
  /\ f_pc = "opened"
  /\ f_op # "get_table_size"
  /\ IF f_op = "get_table_columns"
       THEN /\ f_result' = Some(Heads)
            /\ f_calls' = ExitScope(Append(f_calls, "getHeaders"))
            /\ f_pc' = "done"
            /\ UNCHANGED <<target_cols, f_warnings>>
       ELSE /\ target_cols' = TargetCols(Heads, column_names)
            /\ f_warnings' = f_warnings \o ColumnWarnings(Heads, column_names)
            /\ f_calls' = Append(f_calls, "getHeaders")
            /\ f_pc' = "rows"
            /\ UNCHANGED f_result
  /\ UNCHANGED <<NotFetch, f_file, f_error, f_op, file_id, annotation_id, f_mode, omero_connector, object_id, object_type,
                 f_table, column_names, rows, chunk_size, num_rows, start,
                 data_buffer, index_buffer, df, csv>>

\* read_table lines 148-159, download_table lines 323-334: the requested
\* rows are determined once, before the download loop.
FetchRows ==
  /\ f_pc = "rows"
  /\ IF HasQuery
       THEN /\ rows' = Some(TableWhereList(f_table))
            /\ num_rows' = Len(TableWhereList(f_table))
            /\ f_calls' = Append(f_calls, "getWhereList")
     ELSE IF IsNone(rows)
       THEN /\ num_rows' = Len(f_table)
            /\ f_calls' = Append(f_calls, "getNumberOfRows")
            /\ UNCHANGED rows
     ELSE /\ num_rows' = Len(The(rows))
          /\ f_calls' = Append(f_calls, "list")
          /\ UNCHANGED rows
  /\ start' = 0
  /\ f_pc' = "loop"
  /\ UNCHANGED <<NotFetch, f_file, f_error, f_op, file_id, annotation_id, f_mode, omero_connector, object_id, object_type,
                 f_table, column_names, chunk_size, target_cols, data_buffer,
                 index_buffer, df, csv, f_result, f_warnings>>

\* One pass of the download loop: read_table lines 172-182, download_table
\* lines 345-360.  A window without columns makes data.columns[0] raise.
FetchWindow ==
  /\ f_pc = "loop"
  /\ start < num_rows
  /\ LET data == FetchData(f_table, target_cols, rows, start, chunk_size, num_rows) IN
     /\ f_calls' = IF Len(data.columns) = 0
                     THEN ExitScope(Append(f_calls, IF IsNone(rows) THEN "read" ELSE "slice"))
                     ELSE Append(f_calls, IF IsNone(rows) THEN "read" ELSE "slice")
     /\ f_pc' = IF Len(data.columns) = 0 THEN "error" ELSE "loop"
     /\ f_error' = IF Len(data.columns) = 0 THEN Some("IndexError") ELSE f_error
     /\ IF f_op = "read_table"
          THEN /\ data_buffer' = BufferAddAll(data_buffer, data.columns)
               /\ index_buffer' = index_buffer \o data.rowNumbers
               /\ UNCHANGED csv
          ELSE /\ csv' = Append(csv, Frame(BufferAddAll(<<>>, data.columns), data.rowNumbers))
               /\ UNCHANGED <<data_buffer, index_buffer>>
  /\ start' = start + chunk_size
  /\ UNCHANGED <<NotFetch, f_file, f_op, file_id, annotation_id, f_mode, omero_connector, object_id, object_type,
                 f_table, column_names, rows, chunk_size, target_cols, num_rows,
                 df, f_result, f_warnings>>

\* read_table lines 172-182, download_table lines 345-360: nothing catches
\* the exception of a read or a slice, so it ends the loop and the call.
after_read_failureRetry(pc) == pc
after_read_failure(pc) == "error"

\* The remote read of a window raises: the exception leaves the with-block.
FetchWindowFail ==
  /\ f_pc = "loop"
  /\ start < num_rows
  /\ f_calls' = ExitScope(Append(f_calls, IF IsNone(rows) THEN "read" ELSE "slice"))
  /\ f_pc' = after_read_failure(f_pc)
  /\ f_error' = Some("Ice.Exception")
  /\ UNCHANGED <<NotFetch, f_file, f_op, file_id, annotation_id, f_mode, omero_connector, object_id, object_type,
                 f_table, column_names, rows, chunk_size, target_cols, num_rows,
                 start, data_buffer, index_buffer, df, csv, f_result, f_warnings>>

\* The loop is exhausted: read_table lines 183-186, download_table 361-362.
FetchFinish ==
  /\ f_pc = "loop"
  /\ start >= num_rows
  /\ f_calls' = ExitScope(f_calls)
  /\ df' = IF f_op = "read_table" THEN Some(Frame(data_buffer, index_buffer)) ELSE None
  /\ f_pc' = "done"
  /\ UNCHANGED <<NotFetch, f_file, f_error, f_op, file_id, annotation_id, f_mode, omero_connector, object_id, object_type,
                 f_table, column_names, rows, chunk_size, target_cols, num_rows,
                 start, data_buffer, index_buffer, csv, f_result, f_warnings>>

FetchNext ==
  \/ FetchValidate
  \/ FetchConnect
  \/ FetchGetTable
  \/ FetchSize
  \/ FetchHeaders
  \/ FetchRows
  \/ FetchWindow
  \/ FetchWindowFail
  \/ FetchFinish

\* No fetch call is in progress.
FetchIdle ==
  /\ f_op = "get_table_size"
  /\ omero_connector = None
  /\ f_mode = "range"
  /\ FetchInit({None}, {None}, {<<>>}, {<<>>}, {1})

(* ----------------------- omero2pandas/upload.py ------------------------ *)
\* SPECIAL_NAMES: the column class of a recognised relationship name.
SPECIAL_NAMES ==
  [roi |-> "RoiColumn", image |-> "ImageColumn", dataset |-> "DatasetColumn",
   well |-> "WellColumn", field |-> "ImageColumn", wellsample |-> "ImageColumn",
   plate |-> "PlateColumn"]

\* COLUMN_TYPES: the column class of a numpy dtype kind.
COLUMN_TYPES ==
  [i |-> "LongColumn", u |-> "LongColumn", f |-> "DoubleColumn",
   O |-> "StringColumn", S |-> "StringColumn", U |-> "StringColumn",
   b |-> "BoolColumn"]

\* OBJECT_TYPES: the types a table can be linked to.
OBJECT_TYPES ==
  {"Image", "Dataset", "Plate", "Project", "Screen", "Well", "Roi",
   "BooleanAnnotation", "CommentAnnotation", "DoubleAnnotation",
   "FileAnnotation", "ListAnnotation", "LongAnnotation", "MapAnnotation",
   "TagAnnotation", "TermAnnotation", "TimestampAnnotation", "XmlAnnotation"}

\* str.lower() on the column names the model draws.
Lower(name) ==
  CASE name = "Image" -> "image"
    [] name = "ROI" -> "roi"
    [] OTHER -> name

\* optimal_chunk_size(column_count)
ValuesPerCall == 2000000
ChunkCeiling == 50000
optimal_chunk_sizeNoFloor(column_count) ==
  Min(ValuesPerCall \div column_count, ChunkCeiling)
optimal_chunk_size(column_count) ==
  Max(Min(ValuesPerCall \div column_count, ChunkCeiling), 1)
\* optimal_chunk_size lines 76-77: the warning it logs.
optimal_chunk_size_log(column_count) ==
  IF ValuesPerCall \div column_count > ChunkCeiling
    THEN <<"Limiting automatic chunk size">> ELSE <<>>

\* A cell of a local table is an optional value: None is a missing value
\* (NaN).  series.str.len().max(): the longest string of the cells, None
\* (NaN) when no cell holds a string.
StrLenMax(cells) ==
  LET lens == {Len(The(cells[i])) : i \in {j \in 1..Len(cells) : ~IsNone(cells[j])}} IN
  IF lens = {} THEN None ELSE Some(CHOOSE m \in lens : \A l \in lens : l <= m)

\* max_len = ....str.len().max(); if math.isnan(max_len): max_len = 1
TextWidth(cells) == IF IsNone(StrLenMax(cells)) THEN 1 ELSE The(StrLenMax(cells))

\* The cells of column k of a sequence of rows.
ColumnCells(data, k) == [i \in 1..Len(data) |-> data[i][k]]

\* The class chosen for a column of a DataFrame (generate_omero_columns)
\* and of a CSV scan (generate_omero_columns_csv); "unsupported" stands for
\* the NotImplementedError raised.
ColClassFrame(name, kind) ==
  IF Lower(name) \in DOMAIN SPECIAL_NAMES /\ kind = "i"
    THEN SPECIAL_NAMES[Lower(name)]
  ELSE IF kind \in DOMAIN COLUMN_TYPES THEN COLUMN_TYPES[kind]
  ELSE "unsupported"

ColClassCsv(name, kind) ==
  IF name \in DOMAIN SPECIAL_NAMES /\ kind = "i"
    THEN SPECIAL_NAMES[name]
  ELSE IF kind \in DOMAIN COLUMN_TYPES THEN COLUMN_TYPES[kind]
  ELSE "unsupported"

\* An OMERO column object: size is None for a column that is no
\* StringColumn.
OmeroColumn(name, class, cells) ==
  [name |-> name, kind |-> class,
   size |-> IF class = "StringColumn" THEN Some(TextWidth(cells)) ELSE None,
   values |-> <<>>]

\* generate_omero_columns(df): (omero_columns, string_columns), or the
\* error raised.
generate_omero_columns(dtypes, data) ==
  LET class(k) == ColClassFrame(dtypes[k].name, dtypes[k].kind) IN
  IF \E k \in 1..Len(dtypes) : class(k) = "unsupported"
    THEN [ok |-> FALSE, columns |-> <<>>, str_cols |-> <<>>]
    ELSE [ok |-> TRUE,
          columns |-> [k \in 1..Len(dtypes) |->
                         OmeroColumn(dtypes[k].name, class(k), ColumnCells(data, k))],
          str_cols |-> SelectSeq([k \in 1..Len(dtypes) |-> dtypes[k].name],
                                 LAMBDA n : \E k \in 1..Len(dtypes) :
                                   dtypes[k].name = n /\ class(k) = "StringColumn")]

\* pandas.read_csv: an empty field is read as a missing value.
ReadCsvCell(c) == IF c = Some("") THEN None ELSE c
ReadCsv(data) == [i \in 1..Len(data) |-> [k \in 1..Len(data[i]) |-> ReadCsvCell(data[i][k])]]

\* The row offsets range(0, n, chunk) of the chunks of n rows.
RECURSIVE ChunkStarts(_, _, _)
ChunkStarts(first, n, chunk) ==
  IF first >= n THEN <<>> ELSE <<first>> \o ChunkStarts(first + chunk, n, chunk)

\* The second pass of generate_omero_columns_csv (lines 139-147): the size
\* of a string column is raised to the widest chunk.
RECURSIVE ResolveWidth(_, _, _, _)
ResolveWidth(size, cells, starts, chunk) ==
  IF starts = <<>> THEN size
  ELSE ResolveWidth(Max(TextWidth(Slice(cells, Head(starts), Head(starts) + chunk)), size),
                    cells, Tail(starts), chunk)

\* generate_omero_columns_csv(csv_path, chunk_size): the dtypes are those of
\* the first scan of nrows rows; (omero_columns, string columns, row_count,
\* chunk_size), or the error raised.  chunk is None when the caller gave no
\* chunk size.
ScanRows == 1000
generate_omero_columns_csv(dtypes, file, chunk) ==
  LET data == ReadCsv(file)
      scan == Slice(data, 0, IF IsNone(chunk) THEN ScanRows ELSE The(chunk))
      size == IF IsNone(chunk) THEN optimal_chunk_size(Len(dtypes)) ELSE The(chunk)
      class(k) == ColClassCsv(dtypes[k].name, dtypes[k].kind)
      first(k) == OmeroColumn(dtypes[k].name, class(k), ColumnCells(scan, k))
  IN
  IF \E k \in 1..Len(dtypes) : class(k) = "unsupported"
    THEN [ok |-> FALSE, columns |-> <<>>, str_cols |-> <<>>, row_count |-> 0,
          chunk_size |-> size]
    ELSE [ok |-> TRUE,
          columns |-> [k \in 1..Len(dtypes) |->
                         IF class(k) = "StringColumn"
                           THEN [first(k) EXCEPT !.size =
                                   Some(ResolveWidth(The(first(k).size),
                                                     ColumnCells(data, k),
                                                     ChunkStarts(0, Len(data), size), size))]
                           ELSE first(k)],
          str_cols |-> SelectSeq([k \in 1..Len(dtypes) |-> dtypes[k].name],
                                 LAMBDA n : \E k \in 1..Len(dtypes) :
                                   dtypes[k].name = n /\ class(k) = "StringColumn"),
          row_count |-> Len(data),
          chunk_size |-> size]

\* The link targets that exist on the server, with their group:
\* find(type, id) is None for anything else.
FindGroup(type, id) ==
  CASE type = "Image" /\ id = 1 -> Some(1)
    [] type = "Dataset" /\ id = 2 -> Some(1)
    [] type = "Dataset" /\ id = 3 -> Some(2)
    [] type = "Roi" /\ id = 4 -> Some(1)
    [] OTHER -> None

\* t.lower().capitalize().replace("annotation", "Annotation") on the type
\* names the model draws.
NormalizeType(t) ==
  CASE t = "image" -> "Image"
    [] t = "DATASET" -> "Dataset"
    [] t = "bogus" -> "Bogus"
    [] OTHER -> t

NormalizeLinks(links) ==
  [k \in 1..Len(links) |-> [type |-> NormalizeType(links[k].type), id |-> links[k].id]]

\* working_group is set and differs from the target's group (lines 171-174).
GroupMismatchNever(group, found) == FALSE
GroupMismatch(group, found) == ~IsNone(group) /\ group # found

\* The validation loop of create_table (lines 158-176) over the links left:
\* ok = FALSE stands for the error raised, calls are the lookups made.
RECURSIVE ValidateLinks(_, _, _, _)
ValidateLinks(links, group, roi_only, calls) ==
  IF links = <<>>
    THEN [ok |-> TRUE, group |-> group, roi_only |-> roi_only, calls |-> calls]
  ELSE LET l == Head(links)
           found == FindGroup(l.type, l.id)
       IN
       IF l.type \notin OBJECT_TYPES
         THEN [ok |-> FALSE, group |-> group, roi_only |-> roi_only, calls |-> calls]
       ELSE IF IsNone(found)
         THEN [ok |-> FALSE, group |-> group, roi_only |-> roi_only,
               calls |-> Append(calls, "find")]
       ELSE IF GroupMismatch(group, found)
         THEN [ok |-> FALSE, group |-> group, roi_only |-> roi_only,
               calls |-> Append(calls, "find")]
       ELSE ValidateLinks(Tail(links), found, roi_only /\ l.type = "Roi",
                          Append(calls, "find"))

\* The name, class and text width of a column object.
Descriptor(col) == [name |-> col.name, kind |-> col.kind, size |-> col.size]
Descriptors(cols) == [k \in 1..Len(cols) |-> Descriptor(cols[k])]

\* chunk.loc[:, str_cols] = chunk.loc[:, str_cols].fillna('')
CoerceKeep(chunk, dtypes, strs) == chunk
Coerce(chunk, dtypes, strs) ==
  IF strs = <<>> THEN chunk
  ELSE [i \in 1..Len(chunk) |->
          [k \in 1..Len(chunk[i]) |->
             IF dtypes[k].name \in SeqToSet(strs) /\ IsNone(chunk[i][k])
               THEN Some("") ELSE chunk[i][k]]]

\* The chunk iter_data yields at row offset first (lines 191-192, 200-201).
SourceChunkOverlap(kind, data, first, chunk) ==
  Slice(IF kind = "csv" THEN ReadCsv(data) ELSE data, first, first + chunk + 1)
SourceChunk(kind, data, first, chunk) ==
  Slice(IF kind = "csv" THEN ReadCsv(data) ELSE data, first, first + chunk)

\* omero_column.values = col_data.tolist(), by position (lines 218-221).
AssignValuesResize(cols, chunk) ==
  [k \in 1..Len(cols) |->
     [cols[k] EXCEPT !.values = ColumnCells(chunk, k),
                     !.size = IF IsNone(cols[k].size) THEN None
                              ELSE Some(TextWidth(ColumnCells(chunk, k)))]]
AssignValues(cols, chunk) ==
  [k \in 1..Len(cols) |-> [cols[k] EXCEPT !.values = ColumnCells(chunk, k)]]

\* table.addData(columns) on the server: the rows made of the columns'
\* values are appended.
ServerAppend(stored, cols) ==
  stored \o [i \in 1..(IF cols = <<>> THEN 0 ELSE Len(cols[1].values)) |->
               [k \in 1..Len(cols) |-> cols[k].values[i]]]

\* finally: if table is not None: table.close()
CloseTableNever(calls, handle) == calls
CloseTable(calls, handle) == IF ~IsNone(handle) THEN Append(calls, "close") ELSE calls

\* The sources drawn.  Each row holds an integer cell (written as its
\* numeral) and a text cell; the text cells cover a missing value, the empty
\* string and two lengths.
SourceRowValues ==
  {<<Some("1"), Some("a")>>, <<Some("2"), None>>, <<Some("3"), Some("ccc")>>,
   <<Some("4"), Some("")>>}
SourceTables == UNION {[1..n -> SourceRowValues] : n \in 0..MaxSourceRows}
DtypeChoices ==
  {<<[name |-> "id", kind |-> "i"], [name |-> "name", kind |-> "O"]>>,
   <<[name |-> "Image", kind |-> "i"], [name |-> "name", kind |-> "O"]>>,
   <<[name |-> "id", kind |-> "i"], [name |-> "name", kind |-> "M"]>>,
   <<[name |-> "image", kind |-> "u"], [name |-> "name", kind |-> "O"]>>,
   <<[name |-> "x", kind |-> "f"], [name |-> "name", kind |-> "U"]>>,
   <<[name |-> "flag", kind |-> "b"], [name |-> "ROI", kind |-> "S"]>>}
LinkChoices ==
  {<<[type |-> "Image", id |-> 1]>>,
   <<[type |-> "image", id |-> 1], [type |-> "DATASET", id |-> 2]>>,
   <<[type |-> "Image", id |-> 1], [type |-> "Dataset", id |-> 3]>>,
   <<[type |-> "Dataset", id |-> 2], [type |-> "Image", id |-> 9]>>,
   <<[type |-> "bogus", id |-> 1]>>,
   <<[type |-> "Roi", id |-> 4]>>}

\* A CSV file holds text fields, an empty field being the empty string, and
\* pandas types a column as text only if the rows it scans hold a string in
\* it (or there is no row at all).
CsvSource(dtypes, data, chunk) ==
  /\ \A i \in 1..Len(data) : \A k \in 1..Len(data[i]) : ~IsNone(data[i][k])
  /\ \A k \in 1..Len(dtypes) :
       (dtypes[k].kind = "O" /\ data # <<>>) =>
         \E i \in 1..Min(Len(data), IF IsNone(chunk) THEN ScanRows ELSE The(chunk)) :
           data[i][k] # Some("")

PushInit(kinds, dtypes, tables, links, chunks) ==
  /\ p_kind \in kinds
  /\ p_dtypes \in dtypes
  /\ p_data \in tables
  /\ p_links \in links
  /\ p_chunk_arg \in chunks
  /\ p_kind = "csv" => CsvSource(p_dtypes, p_data, p_chunk_arg)
  /\ p_pc = "start"
  /\ working_group = None
  /\ columns = <<>>
  /\ str_cols = <<>>
  /\ total_rows = 0
  /\ p_chunk = 0
  /\ p_next = 0
  /\ table = None
  /\ p_calls = <<>>
  /\ p_reads = <<>>
  /\ p_warnings = <<>>
  /\ r_init = None
  /\ r_sent = <<>>
  /\ r_rows = <<>>
  /\ p_result = None
  /\ r_links = <<>>
  /\ r_linkfail = None
  /\ r_annotation = None

\* create_table lines 155-180: the link list is normalised and validated.
PushValidate ==
  /\ p_pc = "start"
  /\ LET v == ValidateLinks(NormalizeLinks(p_links), None, TRUE, <<>>) IN
     /\ p_calls' = p_calls \o v.calls
     /\ IF v.ok
          THEN /\ p_pc' = "validated"
               /\ working_group' = v.group
               /\ p_warnings' = IF v.roi_only THEN Append(p_warnings, "roi_only")
                                              ELSE p_warnings
          ELSE /\ p_pc' = "error"
               /\ UNCHANGED <<working_group, p_warnings>>
  /\ UNCHANGED <<NotPush, r_links, r_linkfail, r_annotation, table, p_kind, p_dtypes, p_data, p_links, p_chunk_arg, columns, str_cols,
                 total_rows, p_chunk, p_next, p_reads, r_init, r_sent, r_rows,
                 p_result>>

\* create_table lines 187-201: the schema is inferred and the chunk size
\* settled.  A CSV file is scanned twice, a DataFrame is copied.
PushInfer ==
  /\ p_pc = "validated"
  /\ IF p_kind = "csv"
       THEN LET g == generate_omero_columns_csv(p_dtypes, p_data, p_chunk_arg) IN
            /\ p_reads' = IF g.ok THEN p_reads \o <<"scan", "rescan">>
                                  ELSE Append(p_reads, "scan")
            /\ p_pc' = IF g.ok THEN "inferred" ELSE "error"
            /\ columns' = g.columns
            /\ str_cols' = g.str_cols
            /\ total_rows' = g.row_count
            /\ p_chunk' = g.chunk_size
            /\ p_warnings' = IF IsNone(p_chunk_arg)
                               THEN p_warnings \o optimal_chunk_size_log(Len(p_dtypes))
                               ELSE p_warnings
       ELSE LET g == generate_omero_columns(p_dtypes, p_data) IN
            /\ p_reads' = Append(p_reads, "copy")
            /\ p_pc' = IF g.ok THEN "inferred" ELSE "error"
            /\ columns' = g.columns
            /\ str_cols' = g.str_cols
            /\ total_rows' = IF g.ok THEN Len(p_data) ELSE total_rows
            /\ p_chunk' = IF ~g.ok THEN p_chunk
                          ELSE IF IsNone(p_chunk_arg)
                            THEN optimal_chunk_size(Len(g.columns))
                          ELSE The(p_chunk_arg)
            /\ p_warnings' = IF g.ok /\ IsNone(p_chunk_arg)
                               THEN p_warnings \o optimal_chunk_size_log(Len(g.columns))
                               ELSE p_warnings
  /\ UNCHANGED <<NotPush, r_links, r_linkfail, r_annotation, table, p_kind, p_dtypes, p_data, p_links, p_chunk_arg, working_group,
                 p_next, p_calls, r_init, r_sent, r_rows, p_result>>

\* create_table lines 203-209: the new table is requested.  When newTable
\* raises, table stays None and nothing is closed.
PushNewTable ==
  /\ p_pc = "inferred"
  /\ \E ok \in BOOLEAN :
       /\ p_pc' = IF ok THEN "created" ELSE "error"
       /\ table' = IF ok THEN Some("table") ELSE None
       /\ p_calls' = IF ok
                       THEN p_calls \o <<"sharedResources", "repositories", "newTable">>
                       ELSE CloseTable(p_calls \o <<"sharedResources", "repositories",
                                                    "newTable">>, None)
  /\ UNCHANGED <<NotPush, r_links, r_linkfail, r_annotation, p_kind, p_dtypes, p_data, p_links, p_chunk_arg, working_group,
                 columns, str_cols, total_rows, p_chunk, p_next, p_reads,
                 p_warnings, r_init, r_sent, r_rows, p_result>>

\* create_table line 210: table.initialize(columns).
PushInitialize ==
  /\ p_pc = "created"
  /\ \E ok \in BOOLEAN :
       IF ok
         THEN /\ p_pc' = "writing"
              /\ p_calls' = Append(p_calls, "initialize")
              /\ r_init' = Some(Descriptors(columns))
         ELSE /\ p_pc' = "error"
              /\ p_calls' = CloseTable(Append(p_calls, "initialize"), table)
              /\ UNCHANGED r_init
  /\ p_next' = 0
  /\ UNCHANGED <<NotPush, r_links, r_linkfail, r_annotation, table, p_kind, p_dtypes, p_data, p_links, p_chunk_arg, working_group,
                 columns, str_cols, total_rows, p_chunk, p_reads, p_warnings,
                 r_sent, r_rows, p_result>>

\* One pass of the upload loop, create_table lines 214-223.
PushChunk ==
  /\ p_pc = "writing"
  /\ p_next < Len(p_data)
  /\ LET chunk == Coerce(SourceChunk(p_kind, p_data, p_next, p_chunk), p_dtypes, str_cols)
         filled == AssignValues(columns, chunk)
     IN
     /\ columns' = filled
     /\ p_reads' = Append(p_reads, "chunk")
     /\ \E ok \in BOOLEAN :
          IF ok
            THEN /\ p_pc' = "writing"
                 /\ p_calls' = Append(p_calls, "addData")
                 /\ r_sent' = Append(r_sent, [cols |-> Descriptors(filled), n |-> Len(chunk)])
                 /\ r_rows' = ServerAppend(r_rows, filled)
            ELSE /\ p_pc' = "error"
                 /\ p_calls' = CloseTable(Append(p_calls, "addData"), table)
                 /\ UNCHANGED <<r_sent, r_rows>>
  /\ p_next' = p_next + p_chunk
  /\ UNCHANGED <<NotPush, r_links, r_linkfail, r_annotation, table, p_kind, p_dtypes, p_data, p_links, p_chunk_arg, working_group,
                 str_cols, total_rows, p_chunk, p_warnings, r_init, p_result>>

\* create_table lines 226-232: the FileAnnotation is saved once iter_data
\* is exhausted.
iter_exhaustedEarly(next, n) == TRUE
iter_exhausted(next, n) == next >= n

PushAnnotate ==
  /\ p_pc = "writing"
  /\ iter_exhausted(p_next, Len(p_data))
  /\ \E ok \in BOOLEAN :
       IF ok
         THEN /\ p_pc' = "linking"
              /\ p_calls' = p_calls \o <<"getOriginalFile", "saveAndReturnObject">>
              /\ r_annotation' = Some("annotation")
         ELSE /\ p_pc' = "error"
              /\ UNCHANGED r_annotation
              /\ p_calls' = CloseTable(p_calls \o <<"getOriginalFile", "saveAndReturnObject">>,
                                       table)
  /\ UNCHANGED <<NotPush, r_links, r_linkfail, table, p_kind, p_dtypes, p_data, p_links, p_chunk_arg, working_group,
                 columns, str_cols, total_rows, p_chunk, p_next, p_reads,
                 p_warnings, r_init, r_sent, r_rows, p_result>>

\* create_table lines 240-250: the links of link_buffer are sent in one
\* saveArray call; refused is the position of the link the server refuses,
\* 0 when it refuses none.  The call is one transaction of the server.
save_links(links, refused) == IF refused = 0 THEN links ELSE <<>>

\* create_table lines 236-255: every link is sent in one saveArray call and
\* the annotation id is returned.
PushLink ==
  /\ p_pc = "linking"
  /\ \E refused \in 0..Len(p_links) :
       LET ok == refused = 0 IN
       /\ p_pc' = IF ok THEN "done" ELSE "error"
       /\ p_result' = IF ok THEN r_annotation ELSE None
       /\ p_calls' = CloseTable(Append(p_calls, "saveArray"), table)
       /\ r_links' = save_links(NormalizeLinks(p_links), refused)
       /\ r_linkfail' = IF ok THEN None ELSE Some(refused)
  /\ UNCHANGED <<NotPush, r_annotation, table, p_kind, p_dtypes, p_data, p_links, p_chunk_arg, working_group,
                 columns, str_cols, total_rows, p_chunk, p_next, p_reads,
                 p_warnings, r_init, r_sent, r_rows>>

PushNext ==
  \/ PushValidate
  \/ PushInfer
  \/ PushNewTable
  \/ PushInitialize
  \/ PushChunk
  \/ PushAnnotate
  \/ PushLink

\* No push is in progress.
PushIdle ==
  PushInit({"frame"}, {<<>>}, {<<>>}, {<<>>}, {None})

(* ----------------------- omero2pandas/connect.py ----------------------- *)
\* The connector is a record of the fields of OMEROConnection.  A client is
\* named by its position in sessions; gateway and session are None or set.

\* connected
connected(c) == ~IsNone(c.client)

\* need_connection_details()
need_connection_detailsLoose(c) ==
  IF ~IsNone(c.client) THEN FALSE
  ELSE IF IsNone(c.server) THEN TRUE
  ELSE IF (IsNone(c.username) /\ IsNone(c.password)) /\ IsNone(c.session_key) THEN TRUE
  ELSE FALSE
need_connection_details(c) ==
  IF ~IsNone(c.client) THEN FALSE
  ELSE IF IsNone(c.server) THEN TRUE
  ELSE IF (IsNone(c.username) \/ IsNone(c.password)) /\ IsNone(c.session_key) THEN TRUE
  ELSE FALSE

\* get_user_token(): the token is looked for only when neither a server nor
\* a username is set; found is what the lookup yields (None: no token, not
\* installed, or unreadable).
get_user_token(c, found) ==
  IF IsNone(c.server) /\ IsNone(c.username) /\ ~IsNone(found)
    THEN [c EXCEPT !.server = Some("token-host"), !.session_key = found]
    ELSE c

\* __init__(client, server, username, password, session_key, allow_token):
\* client is None, "client" (a BaseClient) or "gateway" (a BlitzGateway); an
\* external client is client object 1.
init_connection(client, server, username, password, session_key, allow_token, found) ==
  LET c == [client |-> IF IsNone(client) THEN None ELSE Some(1),
            gateway |-> IF client = Some("gateway") THEN Some("gateway") ELSE None,
            external_client |-> ~IsNone(client),
            session |-> None,
            temp_session |-> FALSE,
            server |-> IF IsNone(client) THEN server ELSE Some("client-host"),
            username |-> username,
            password |-> password,
            session_key |-> session_key]
  IN IF allow_token /\ need_connection_details(c) THEN get_user_token(c, found) ELSE c

\* shutdown(): the connector and the close counts afterwards.
shutdownKeepClient(c, ss) ==
  IF ~IsNone(c.client)
    THEN [conn |-> [c EXCEPT !.temp_session = FALSE],
          sessions |-> [ss EXCEPT ![The(c.client)] = @ + 1]]
    ELSE [conn |-> [c EXCEPT !.temp_session = FALSE], sessions |-> ss]
shutdown(c, ss) ==
  IF ~IsNone(c.client)
    THEN [conn |-> [c EXCEPT !.temp_session = FALSE, !.client = None,
                             !.gateway = None, !.session = None],
          sessions |-> [ss EXCEPT ![The(c.client)] = @ + 1]]
    ELSE [conn |-> [c EXCEPT !.temp_session = FALSE], sessions |-> ss]

\* connect(interactive=False, keep_alive): ok says whether the server
\* accepts the session key or the credentials.  ret is None when connect
\* raises.
connect_directNoCheck(c, ss, keep_alive, ok) ==
  IF connected(c)
    THEN [conn |-> c, sessions |-> ss, ret |-> Some(TRUE), calls |-> <<>>]
  ELSE IF ~IsNone(c.session_key)
    THEN IF ok
      THEN [conn |-> [c EXCEPT !.client = Some(Len(ss) + 1), !.session = Some("session")],
            sessions |-> Append(ss, 0), ret |-> Some(TRUE),
            calls |-> <<"joinSession">> \o (IF keep_alive THEN <<"enableKeepAlive">> ELSE <<>>)]
      ELSE [conn |-> [c EXCEPT !.client = None, !.session = None],
            sessions |-> ss, ret |-> Some(FALSE), calls |-> <<"joinSession">>]
  ELSE IF ~IsNone(c.username)
    THEN IF ok
      THEN [conn |-> [c EXCEPT !.client = Some(Len(ss) + 1), !.session = Some("session")],
            sessions |-> Append(ss, 0), ret |-> Some(TRUE),
            calls |-> <<"createSession">> \o (IF keep_alive THEN <<"enableKeepAlive">> ELSE <<>>)]
      ELSE [conn |-> [c EXCEPT !.client = None, !.session = None],
            sessions |-> ss, ret |-> Some(FALSE), calls |-> <<"createSession">>]
  ELSE [conn |-> [c EXCEPT !.client = None, !.session = None],
        sessions |-> ss, ret |-> None, calls |-> <<>>]
connect_directHalfOpen(c, ss, keep_alive, ok) ==
  IF connected(c)
    THEN [conn |-> c, sessions |-> ss, ret |-> Some(TRUE), calls |-> <<>>]
  ELSE IF need_connection_details(c)
    THEN [conn |-> c, sessions |-> ss, ret |-> None, calls |-> <<>>]
  ELSE IF ~IsNone(c.session_key)
    THEN IF ok
      THEN [conn |-> [c EXCEPT !.client = Some(Len(ss) + 1), !.session = Some("session")],
            sessions |-> Append(ss, 0), ret |-> Some(TRUE),
            calls |-> <<"joinSession">> \o (IF keep_alive THEN <<"enableKeepAlive">> ELSE <<>>)]
      ELSE [conn |-> [c EXCEPT !.client = Some(Len(ss) + 1), !.session = None],
            sessions |-> Append(ss, 0), ret |-> Some(FALSE), calls |-> <<"joinSession">>]
  ELSE IF ~IsNone(c.username)
    THEN IF ok
      THEN [conn |-> [c EXCEPT !.client = Some(Len(ss) + 1), !.session = Some("session")],
            sessions |-> Append(ss, 0), ret |-> Some(TRUE),
            calls |-> <<"createSession">> \o (IF keep_alive THEN <<"enableKeepAlive">> ELSE <<>>)]
      ELSE [conn |-> [c EXCEPT !.client = None, !.session = None],
            sessions |-> ss, ret |-> Some(FALSE), calls |-> <<"createSession">>]
  ELSE [conn |-> [c EXCEPT !.client = None, !.session = None],
        sessions |-> ss, ret |-> None, calls |-> <<>>]
connect_directUserFirst(c, ss, keep_alive, ok) ==
  IF connected(c)
    THEN [conn |-> c, sessions |-> ss, ret |-> Some(TRUE), calls |-> <<>>]
  ELSE IF need_connection_details(c)
    THEN [conn |-> c, sessions |-> ss, ret |-> None, calls |-> <<>>]
  ELSE IF ~IsNone(c.username)
    THEN IF ok
      THEN [conn |-> [c EXCEPT !.client = Some(Len(ss) + 1), !.session = Some("session")],
            sessions |-> Append(ss, 0), ret |-> Some(TRUE),
            calls |-> <<"createSession">> \o (IF keep_alive THEN <<"enableKeepAlive">> ELSE <<>>)]
      ELSE [conn |-> [c EXCEPT !.client = None, !.session = None],
            sessions |-> ss, ret |-> Some(FALSE), calls |-> <<"createSession">>]
  ELSE IF ~IsNone(c.session_key)
    THEN IF ok
      THEN [conn |-> [c EXCEPT !.client = Some(Len(ss) + 1), !.session = Some("session")],
            sessions |-> Append(ss, 0), ret |-> Some(TRUE),
            calls |-> <<"joinSession">> \o (IF keep_alive THEN <<"enableKeepAlive">> ELSE <<>>)]
      ELSE [conn |-> [c EXCEPT !.client = None, !.session = None],
            sessions |-> ss, ret |-> Some(FALSE), calls |-> <<"joinSession">>]
  ELSE [conn |-> [c EXCEPT !.client = None, !.session = None],
        sessions |-> ss, ret |-> None, calls |-> <<>>]
connect_direct(c, ss, keep_alive, ok) ==
  IF connected(c)
    THEN [conn |-> c, sessions |-> ss, ret |-> Some(TRUE), calls |-> <<>>]
  ELSE IF need_connection_details(c)
    THEN [conn |-> c, sessions |-> ss, ret |-> None, calls |-> <<>>]
  ELSE IF ~IsNone(c.session_key)
    THEN IF ok
      THEN [conn |-> [c EXCEPT !.client = Some(Len(ss) + 1), !.session = Some("session")],
            sessions |-> Append(ss, 0), ret |-> Some(TRUE),
            calls |-> <<"joinSession">> \o (IF keep_alive THEN <<"enableKeepAlive">> ELSE <<>>)]
      ELSE [conn |-> [c EXCEPT !.client = None, !.session = None],
            sessions |-> ss, ret |-> Some(FALSE), calls |-> <<"joinSession">>]
  ELSE IF ~IsNone(c.username)
    THEN IF ok
      THEN [conn |-> [c EXCEPT !.client = Some(Len(ss) + 1), !.session = Some("session")],
            sessions |-> Append(ss, 0), ret |-> Some(TRUE),
            calls |-> <<"createSession">> \o (IF keep_alive THEN <<"enableKeepAlive">> ELSE <<>>)]
      ELSE [conn |-> [c EXCEPT !.client = None, !.session = None],
            sessions |-> ss, ret |-> Some(FALSE), calls |-> <<"createSession">>]
  ELSE [conn |-> [c EXCEPT !.client = None, !.session = None],
        sessions |-> ss, ret |-> None, calls |-> <<>>]

\* connect_cli(): what was typed replaces the details, empty input keeps
\* them; then connect(interactive=False), whose exception is not caught.
connect_cli(c, ss, typed, ok) ==
  LET r == connect_direct(
             [c EXCEPT !.server = IF typed.server THEN Some("typed-host") ELSE @,
                       !.username = IF typed.username THEN Some("typed-user") ELSE @,
                       !.password = IF typed.password THEN Some("typed-pass") ELSE @],
             ss, TRUE, ok)
  IN [r EXCEPT !.calls = <<"prompt">> \o @]

\* connect(interactive, keep_alive)
connect(c, ss, interactive, keep_alive, typed, ok) ==
  IF connected(c)
    THEN [conn |-> c, sessions |-> ss, ret |-> Some(TRUE), calls |-> <<>>]
  ELSE IF need_connection_details(c) /\ interactive
    THEN LET r == connect_cli(c, ss, typed, ok) IN
         [r EXCEPT !.ret = IF IsNone(r.ret) THEN None ELSE Some(FALSE)]
  ELSE connect_direct(c, ss, keep_alive, ok)

Options(v) == {None, Some(v)}
Typed == [server : BOOLEAN, username : BOOLEAN, password : BOOLEAN]
\* Nothing is typed: connect(interactive=False) shows no prompt.
NoTyped == [server |-> FALSE, username |-> FALSE, password |-> FALSE]
\* The arguments of an operation that takes none; accepted is the server's
\* answer to a session request made during the operation.
NoArg == [interactive |-> FALSE, keep_alive |-> FALSE, accepted |-> TRUE]

\* __init__ line 75-76 with get_user_token line 269: the token is looked up.
token_lookup(c, allow_token) ==
  allow_token /\ need_connection_details(c) /\ IsNone(c.server) /\ IsNone(c.username)

\* __enter__(): ok says whether the server accepts the session.
enterNoFlag(c, ss, ok) ==
  IF IsNone(c.client)
    THEN LET r == connect(c, ss, FALSE, TRUE, NoTyped, ok) IN
         [conn |-> r.conn, sessions |-> r.sessions,
          raised |-> r.ret # Some(TRUE), calls |-> r.calls]
    ELSE [conn |-> c, sessions |-> ss, raised |-> FALSE, calls |-> <<>>]
__enter__(c, ss, ok) ==
  IF IsNone(c.client)
    THEN LET r == connect(c, ss, FALSE, TRUE, NoTyped, ok) IN
         IF r.ret = Some(TRUE)
           THEN [conn |-> [r.conn EXCEPT !.temp_session = TRUE],
                 sessions |-> r.sessions, raised |-> FALSE, calls |-> r.calls]
           ELSE [conn |-> r.conn, sessions |-> r.sessions,
                 raised |-> TRUE, calls |-> r.calls]
    ELSE [conn |-> c, sessions |-> ss, raised |-> FALSE, calls |-> <<>>]

\* __exit__(exc_type, exc_value, traceback): the arguments are not looked at.
exitAlways(c, ss) ==
  IF ~IsNone(c.client)
    THEN LET r == shutdown(c, ss) IN
         [conn |-> [r.conn EXCEPT !.temp_session = FALSE],
          sessions |-> r.sessions, calls |-> <<"closeSession">>]
    ELSE [conn |-> c, sessions |-> ss, calls |-> <<>>]
__exit__(c, ss) ==
  IF ~IsNone(c.client) /\ c.temp_session
    THEN LET r == shutdown(c, ss) IN
         [conn |-> [r.conn EXCEPT !.temp_session = FALSE],
          sessions |-> r.sessions, calls |-> <<"closeSession">>]
    ELSE [conn |-> c, sessions |-> ss, calls |-> <<>>]

\* __del__()
__del__(c, ss) ==
  IF ~c.external_client THEN shutdown(c, ss) ELSE [conn |-> c, sessions |-> ss]

\* cleanup_sessions(): every connector is in ACTIVE_CONNECTORS (line 78), so
\* the sweep reaches this one.
cleanup_sessions(c, ss) == shutdown(c, ss)

ConnInit ==
  /\ token \in Options("token-key")
  /\ \E client \in {None, Some("client"), Some("gateway")},
        server \in Options("host"), username \in Options("user"),
        password \in Options("pass"), session_key \in Options("key"),
        allow_token \in BOOLEAN :
       /\ conn = init_connection(client, server, username, password, session_key,
                                 allow_token, token)
       /\ sessions = IF IsNone(client) THEN <<>> ELSE <<0>>
       /\ c_init = [client |-> client, server |-> server, username |-> username,
                    password |-> password, session_key |-> session_key,
                    allow_token |-> allow_token]
       /\ c_calls = IF token_lookup(init_connection(client, server, username, password,
                                                    session_key, FALSE, None),
                                    allow_token)
                      THEN <<"get_token">> ELSE <<>>
  /\ c_depth = 0
  /\ c_last = "init"
  /\ c_prev = "init"
  /\ c_ret = None
  /\ c_raised = FALSE
  /\ c_ops = 0
  /\ c_arg = NoArg
  /\ c_temp = {}

\* The bookkeeping of an operation named op.  Nothing runs on a connector
\* that was deleted, and only deletion follows the process-exit sweep.
Ran(op) ==
  /\ c_ops < MaxOps
  /\ c_last # "del"
  /\ c_last = "cleanup" => op = "del"
  /\ c_ops' = c_ops + 1
  /\ c_prev' = c_last
  /\ c_last' = op

\* connector.connect(interactive, keep_alive)
ConnConnect ==
  /\ Ran("connect")
  /\ \E interactive \in BOOLEAN, keep_alive \in BOOLEAN, ok \in BOOLEAN :
     \E typed \in IF interactive /\ need_connection_details(conn) THEN Typed ELSE {NoTyped} :
       LET r == connect(conn, sessions, interactive, keep_alive, typed, ok) IN
       /\ conn' = r.conn
       /\ sessions' = r.sessions
       /\ c_ret' = r.ret
       /\ c_raised' = IsNone(r.ret)
       /\ c_calls' = r.calls
       /\ c_arg' = [interactive |-> interactive, keep_alive |-> keep_alive,
                    accepted |-> ok]
  /\ UNCHANGED <<NotConn, token, c_depth, c_init, c_temp>>

\* connector.shutdown()
ConnShutdown ==
  /\ Ran("shutdown")
  /\ LET r == shutdown(conn, sessions) IN
     /\ conn' = r.conn
     /\ sessions' = r.sessions
     /\ c_calls' = IF r.sessions # sessions THEN <<"closeSession">> ELSE <<>>
  /\ c_ret' = None
  /\ c_raised' = FALSE
  /\ c_arg' = NoArg
  /\ UNCHANGED <<NotConn, token, c_depth, c_init, c_temp>>

\* get_gateway(): raises without a client, else builds the gateway on first
\* use and returns it.
get_gatewayNoCheck(c) ==
  [conn |-> [c EXCEPT !.gateway = Some("gateway")], raised |-> FALSE,
   ret |-> Some("gateway")]
get_gateway(c) ==
  IF IsNone(c.client)
    THEN [conn |-> c, raised |-> TRUE, ret |-> None]
    ELSE [conn |-> [c EXCEPT !.gateway = Some("gateway")], raised |-> FALSE,
          ret |-> Some("gateway")]

\* connector.get_gateway()
ConnGetGateway ==
  /\ Ran("get_gateway")
  /\ LET r == get_gateway(conn) IN
     /\ c_raised' = r.raised
     /\ c_ret' = r.ret
     /\ conn' = r.conn
  /\ c_calls' = <<>>
  /\ c_arg' = NoArg
  /\ UNCHANGED <<NotConn, sessions, token, c_depth, c_init, c_temp>>

\* with connector: __enter__ creates a temporary session when no client is
\* held and raises when that fails, so that the body does not run.
ConnEnter ==
  /\ Ran("enter")
  /\ c_depth < MaxDepth
  /\ \E ok \in BOOLEAN :
       LET r == __enter__(conn, sessions, ok) IN
       /\ conn' = r.conn
       /\ sessions' = r.sessions
       /\ c_calls' = r.calls
       /\ c_raised' = r.raised
       /\ c_depth' = IF r.raised THEN c_depth ELSE c_depth + 1
       /\ c_temp' = IF Len(r.sessions) > Len(sessions)
                      THEN c_temp \cup {Len(r.sessions)} ELSE c_temp
       /\ c_arg' = [interactive |-> FALSE, keep_alive |-> TRUE, accepted |-> ok]
  /\ c_ret' = None
  /\ UNCHANGED <<NotConn, token, c_init>>

\* The with-block is left, normally or by an exception: __exit__ shuts a
\* temporary session down.
ConnExit ==
  /\ \E op \in {"exit", "exit_exc"} : Ran(op)
  /\ c_depth > 0
  /\ c_depth' = c_depth - 1
  /\ LET r == __exit__(conn, sessions) IN
     /\ conn' = r.conn
     /\ sessions' = r.sessions
     /\ c_calls' = r.calls
  /\ c_ret' = None
  /\ c_raised' = FALSE
  /\ c_arg' = NoArg
  /\ UNCHANGED <<NotConn, token, c_init, c_temp>>

\* The connector object is destroyed.
ConnDel ==
  /\ Ran("del")
  /\ c_depth = 0
  /\ LET r == __del__(conn, sessions) IN
     /\ conn' = r.conn
     /\ sessions' = r.sessions
     /\ c_calls' = IF r.sessions # sessions THEN <<"closeSession">> ELSE <<>>
  /\ c_ret' = None
  /\ c_raised' = FALSE
  /\ c_arg' = NoArg
  /\ UNCHANGED <<NotConn, token, c_depth, c_init, c_temp>>

\* The interpreter exits: atexit runs cleanup_sessions.
ConnCleanup ==
  /\ Ran("cleanup")
  /\ c_depth = 0
  /\ LET r == cleanup_sessions(conn, sessions) IN
     /\ conn' = r.conn
     /\ sessions' = r.sessions
     /\ c_calls' = IF r.sessions # sessions THEN <<"closeSession">> ELSE <<>>
  /\ c_ret' = None
  /\ c_raised' = FALSE
  /\ c_arg' = NoArg
  /\ UNCHANGED <<NotConn, token, c_depth, c_init, c_temp>>

ConnNext ==
  \/ ConnConnect
  \/ ConnShutdown
  \/ ConnGetGateway
  \/ ConnEnter
  \/ ConnExit
  \/ ConnDel
  \/ ConnCleanup

\* No connector is in use.
ConnIdle ==
  /\ token = None
  /\ conn = init_connection(None, None, None, None, None, FALSE, None)
  /\ sessions = <<>>
  /\ c_depth = 0
  /\ c_last = "init"
  /\ c_prev = "init"
  /\ c_ret = None
  /\ c_raised = FALSE
  /\ c_calls = <<>>
  /\ c_ops = 0
  /\ c_init = [client |-> None, server |-> None, username |-> None,
               password |-> None, session_key |-> None, allow_token |-> FALSE]
  /\ c_arg = NoArg
  /\ c_temp = {}


(* --------------- connect.py: the sweep at interpreter exit -------------- *)
\* shutdown() when closeSession raises: temp_session is cleared (line 105),
\* the exception leaves shutdown before the fields are reset (lines 108-111).
\* Without a client nothing is called and nothing is raised.
shutdown_raising(c, ss) ==
  [conn |-> [c EXCEPT !.temp_session = FALSE], sessions |-> ss,
   raised |-> ~IsNone(c.client)]

\* The connectors a registry may hold at exit: one with a live session on
\* client j, one that never connected, one that was shut down before.
ConnectorKinds == {"connected", "never", "shutdown"}
NeverConnected ==
  init_connection(None, Some("host"), Some("user"), Some("pass"), None, FALSE, None)
Connector(kind, j) ==
  LET live == [NeverConnected EXCEPT !.client = Some(j), !.session = Some("session"),
                                     !.gateway = Some("gateway")]
  IN CASE kind = "connected" -> live
       [] kind = "never" -> NeverConnected
       [] kind = "shutdown" -> shutdown(live, [k \in 1..j |-> 0]).conn

SweepInit ==
  /\ \E n \in 0..MaxConnectors :
       /\ w_kinds \in [1..n -> ConnectorKinds]
       /\ w_broken \in SUBSET (1..n)
  /\ w_reg = [j \in 1..Len(w_kinds) |-> Connector(w_kinds[j], j)]
  /\ w_sessions = [j \in 1..Len(w_kinds) |-> IF w_kinds[j] = "shutdown" THEN 1 ELSE 0]
  /\ w_pos = 0
  /\ w_tried = <<>>
  /\ w_pc = "sweeping"

\* cleanup_sessions line 330: the loop has another connector to take.
more_connectorsButLast(pos, n) == pos < n - 1
more_connectors(pos, n) == pos < n

\* cleanup_sessions lines 330-331: shutdown() is called on the next
\* connector; an exception of closeSession leaves the loop and the function.
SweepStep ==
  /\ w_pc = "sweeping"
  /\ more_connectors(w_pos, Len(w_reg))
  /\ LET j == w_pos + 1
         r == IF j \in w_broken THEN shutdown_raising(w_reg[j], w_sessions)
                                ELSE shutdown(w_reg[j], w_sessions) @@ [raised |-> FALSE]
     IN
     /\ w_reg' = [w_reg EXCEPT ![j] = r.conn]
     /\ w_sessions' = r.sessions
     /\ w_tried' = Append(w_tried, j)
     /\ w_pos' = j
     /\ w_pc' = IF r.raised THEN "raised" ELSE "sweeping"
  /\ UNCHANGED <<NotSweep, w_kinds, w_broken>>

\* cleanup_sessions: the loop is exhausted and the function returns.
SweepReturn ==
  /\ w_pc = "sweeping"
  /\ ~more_connectors(w_pos, Len(w_reg))
  /\ w_pc' = "returned"
  /\ UNCHANGED <<NotSweep, w_reg, w_sessions, w_kinds, w_broken, w_pos, w_tried>>

SweepNext ==
  \/ SweepStep
  \/ SweepReturn

\* The interpreter is not exiting.
SweepIdle ==
  /\ w_reg = <<>>
  /\ w_sessions = <<>>
  /\ w_kinds = <<>>
  /\ w_broken = {}
  /\ w_pos = 0
  /\ w_tried = <<>>
  /\ w_pc = "idle"

(* ------------------ omero2pandas/__init__.py: upload_table ------------- *)
\* A links collection the caller holds: None, a list or a tuple of
\* (type, id) pairs, or one bare pair ("pair": the tuple itself).
LinkPairs == {<<"Image", 1>>, <<"Dataset", 2>>}
GivenLinks ==
  {[shape |-> "none", items |-> <<>>]}
  \cup {[shape |-> sh, items |-> it] :
          sh \in {"list", "tuple"},
          it \in {<<>>, <<<<"Image", 1>>>>, <<<<"Dataset", 2>>>>,
                  <<<<"Image", 1>>, <<"Dataset", 2>>>>}}
  \cup {[shape |-> "pair", items |-> <<pr>>] : pr \in LinkPairs}
Parents == {None} \cup {Some(pr) : pr \in LinkPairs \cup {<<"Roi", 3>>}}

\* upload_table lines 226-236: links is coerced to a list and the parent is
\* appended to it.  shared says that the local list is the caller's own
\* object; given is the caller's collection afterwards.
upload_table_links(given, parent) ==
  LET fresh == given.shape = "none" \/ given.items = <<>>
                 \/ given.shape \in {"pair", "tuple"}
      shared == ~fresh
      before == IF given.shape = "none" THEN <<>> ELSE given.items
      after == IF ~IsNone(parent) /\ The(parent) \notin SeqToSet(before)
                 THEN Append(before, The(parent)) ELSE before
  IN [links |-> after,
      shared |-> shared,
      given |-> IF shared THEN [given EXCEPT !.items = after] ELSE given]

UploadInit ==
  /\ u_name_ok \in BOOLEAN
  /\ u_given \in GivenLinks
  /\ u_parent \in Parents
  /\ u_links = None
  /\ u_pc = "start"
  /\ u_error = None

\* upload_table lines 224-241: the table name is checked, links coerced and
\* checked.
UploadCheck ==
  /\ u_pc = "start"
  /\ IF ~u_name_ok
       THEN /\ u_pc' = "error"
            /\ u_error' = Some("ValueError")
            /\ UNCHANGED <<u_given, u_links>>
       ELSE LET r == upload_table_links(u_given, u_parent) IN
            /\ u_links' = Some(r.links)
            /\ u_given' = r.given
            /\ IF r.links = <<>>
                 THEN u_pc' = "error" /\ u_error' = Some("ValueError")
                 ELSE u_pc' = "ready" /\ UNCHANGED u_error
  /\ UNCHANGED <<NotUpload, u_name_ok, u_parent>>

\* upload_table lines 242-259: the table is created inside the connector's
\* scope; create_table and register_table read links into new lists.  The
\* call returns the annotation id or raises.
UploadRun ==
  /\ u_pc = "ready"
  /\ \E ok \in BOOLEAN :
       /\ u_pc' = IF ok THEN "done" ELSE "error"
       /\ u_error' = IF ok THEN None ELSE Some("Exception")
  /\ UNCHANGED <<NotUpload, u_name_ok, u_given, u_parent, u_links>>

UploadNext ==
  \/ UploadCheck
  \/ UploadRun

\* No upload_table call is in progress.
UploadIdle ==
  /\ u_name_ok = TRUE
  /\ u_given = [shape |-> "none", items |-> <<>>]
  /\ u_parent = None
  /\ u_links = None
  /\ u_pc = "idle"
  /\ u_error = None

(* ----------------------- omero2pandas/remote.py ------------------------ *)
OMERO_TILEDB_VERSION == "3"
CSRF_TOKEN_HEADER == "X-CSRFToken"
SEC_TOKEN_HEADER == "X-SecretToken"
SEC_TOKEN_METADATA_KEY == "SecretToken"
TOKEN_ENDPOINT == "/api/v0/token"
REGISTER_ENDPOINT == "/omero_plus/api/v0/table"

\* A file name is a stem and a suffix; a path is its directory and a name.
\* Path.with_suffix replaces the suffix of a name.
with_suffix(name, suffix) == [name EXCEPT !.suffix = suffix]

\* create_remote_table lines 37-40: the path the artifact is written to.
\* is_dir says whether local_path is an existing directory.
resolve_write_path(local_path, is_dir, table_name) ==
  IF is_dir /\ local_path.name.suffix # ".tiledb"
    THEN [dir |-> Append(local_path.dir, local_path.name),
          name |-> with_suffix(table_name, ".tiledb")]
    ELSE local_path

\* create_remote_table lines 42-47: the path the server is told.
resolve_remote_path(write_path, remote_path) ==
  IF IsNone(remote_path) THEN write_path
  ELSE IF The(remote_path).name.suffix # ".tiledb"
    THEN [dir |-> Append(The(remote_path).dir, The(remote_path).name),
          name |-> write_path.name]
  ELSE The(remote_path)

\* create_tiledb lines 59-60: output_path.exists()
output_path_existsNever(art) == FALSE
output_path_exists(art) == ~IsNone(art)

\* register_table lines 108-111: prefix is a sequence of characters.
fix_prefix(prefix) ==
  LET led == IF Len(prefix) > 0 /\ Head(prefix) # "/" THEN <<"/">> \o prefix ELSE prefix
  IN IF Len(led) > 0 /\ led[Len(led)] = "/" THEN SubSeq(led, 1, Len(led) - 1) ELSE led

\* A response body, by what response.json() makes of it: "text" is not JSON,
\* "json:id" is {"data": {"file_annotation": 7}}, "json:id9" the same with
\* 9, "json:csrf" is
\* {"data": "csrf-1"}, "json:message" is {"message": "denied"}, "json:other"
\* is an object with neither key.
Bodies == {"json:id", "json:id9", "json:csrf", "json:message", "json:other", "text"}
ContentTypes == {"application/json", "text/html"}
Statuses == {100, 199, 200, 204, 299, 300, 302, 399, 400, 403, 404, 500, 599}
Responses == [status_code : Statuses, content_type : ContentTypes, body : Bodies]

\* requests' Response.raise_for_status(): it raises for 4xx and 5xx only.
raise_for_status(response) ==
  400 <= response.status_code /\ response.status_code < 600

\* _check_response(response): the content returned, or the exception raised,
\* and the error record logged.
_check_responseNever(response) ==
  IF response.body = "text"
    THEN [raised |-> Some("JSONDecodeError"), content |-> None, log |-> <<>>]
    ELSE [raised |-> None, content |-> Some(response.body), log |-> <<>>]
_check_responseStatusOnly(response) ==
  IF raise_for_status(response)
    THEN [raised |-> Some("HTTPError"), content |-> None, log |-> <<>>]
  ELSE IF response.body = "text"
    THEN [raised |-> Some("JSONDecodeError"), content |-> None, log |-> <<>>]
  ELSE [raised |-> None, content |-> Some(response.body), log |-> <<>>]
_check_response(response) ==
  IF 200 <= response.status_code /\ response.status_code < 300
    THEN IF response.body = "text"
           THEN [raised |-> Some("JSONDecodeError"), content |-> None, log |-> <<>>]
           ELSE [raised |-> None, content |-> Some(response.body), log |-> <<>>]
  ELSE IF response.content_type = "application/json" /\ response.body = "text"
    THEN [raised |-> Some("JSONDecodeError"), content |-> None, log |-> <<>>]
  ELSE LET error_message ==
             IF response.content_type # "application/json" THEN "<No further message>"
             ELSE IF response.body = "json:message" THEN "denied"
             ELSE response.body
       IN [raised |-> Some(IF raise_for_status(response)
                             THEN "HTTPError" ELSE "HTTPError: Unhandled response code"),
           content |-> None,
           log |-> <<[level |-> "error",
                      mentions |-> <<response.status_code, error_message>>]>>]

\* token_data["data"] on the content of the GET.
csrf_of(content) == IF content = "json:csrf" THEN Some("csrf-1") ELSE None
\* content["data"]["file_annotation"] on the content of the POST.
file_annotation_of(content) ==
  IF content = "json:id" THEN Some(7)
  ELSE IF content = "json:id9" THEN Some(9)
  ELSE None

\* The artifact a previous write left at write_path.
OldArtifact ==
  Some([rows |-> 1,
        meta |-> Some([version |-> OMERO_TILEDB_VERSION, initialized |-> "time",
                       SecretToken |-> "old-secret"])])
\* secrets.token_urlsafe() yields a fresh secret.
Secrets == {"secret-1", "secret-2"}
Names == {[stem |-> "t", suffix |-> ""], [stem |-> "t", suffix |-> ".v2"]}
LocalPaths ==
  {[path |-> [dir |-> <<>>, name |-> [stem |-> "out", suffix |-> ""]], is_dir |-> TRUE],
   [path |-> [dir |-> <<>>, name |-> [stem |-> "arr", suffix |-> ".tiledb"]], is_dir |-> TRUE],
   [path |-> [dir |-> <<"out">>, name |-> [stem |-> "new", suffix |-> ".tiledb"]], is_dir |-> FALSE]}
RemotePaths ==
  {None,
   Some([dir |-> <<"srv">>, name |-> [stem |-> "data", suffix |-> ""]]),
   Some([dir |-> <<"srv">>, name |-> [stem |-> "x", suffix |-> ".tiledb"]])}
Prefixes == {<<>>, <<"p">>, <<"/", "p", "/">>}
\* links: the (kind, id) pairs the table is to be attached to.
LinkTargets == {<<>>, <<<<"Image", 1>>>>}

RemoteInit(locals, names, remotes, prefixes) ==
  /\ t_in \in [local_path : locals, table_name : names, remote_path : remotes,
               prefix : prefixes, exists : BOOLEAN, rows : 0..MaxArtRows,
               chunk_size : {None, Some(1)}, server : Options("host"),
               client : BOOLEAN, links : LinkTargets]
  \* an existing directory named *.tiledb is the artifact itself
  /\ (t_in.local_path.is_dir /\ t_in.local_path.path.name.suffix = ".tiledb") => t_in.exists
  /\ t_pc = "resolve"
  /\ t_paths = None
  /\ t_art = IF t_in.exists THEN OldArtifact ELSE None
  /\ t_written = 0
  /\ t_token = None
  /\ t_csrf = None
  /\ t_http = <<>>
  /\ t_resp = <<>>
  /\ t_log = <<>>
  /\ t_result = None
  /\ t_error = None

\* create_remote_table lines 35-48
RemoteResolve ==
  /\ t_pc = "resolve"
  /\ LET write_path == resolve_write_path(t_in.local_path.path, t_in.local_path.is_dir,
                                          t_in.table_name)
     IN t_paths' = Some([write |-> write_path,
                         remote |-> resolve_remote_path(write_path, t_in.remote_path)])
  /\ t_log' = t_log \o <<[level |-> "info", mentions |-> <<>>],
                         [level |-> "debug", mentions |-> <<"remote_path">>]>>
  /\ t_pc' = "create"
  /\ UNCHANGED <<NotRemote, t_in, t_art, t_written, t_token, t_csrf, t_http, t_resp,
                 t_result, t_error>>

\* create_tiledb lines 56-80: refuse an existing path, else get ready to write.
RemoteCheckExists ==
  /\ t_pc = "create"
  /\ IF output_path_exists(t_art)
       THEN /\ t_pc' = "error"
            /\ t_error' = Some("ValueError: already exists")
            /\ UNCHANGED t_log
       ELSE /\ t_pc' = IF t_in.rows > 0 THEN "write" ELSE "meta"
            /\ t_log' = Append(t_log, [level |-> "info", mentions |-> <<>>])
            /\ UNCHANGED t_error
  /\ UNCHANGED <<NotRemote, t_in, t_paths, t_art, t_written, t_token, t_csrf, t_http,
                 t_resp, t_result>>

\* chunk_size or 1000, with a source of at most MaxArtRows rows.
ArtChunk == IF IsNone(t_in.chunk_size) THEN 1000 ELSE The(t_in.chunk_size)

\* create_tiledb line 81: data_iterator has no chunk left.
data_exhaustedEarly(written, total) == TRUE
data_exhausted(written, total) == written >= total

\* create_tiledb lines 81-87: one chunk is written (ingest, then append), or
\* the write fails.
RemoteWriteChunk ==
  /\ t_pc = "write"
  /\ \E ok \in BOOLEAN :
       IF ok
         THEN LET n == Min(ArtChunk, t_in.rows - t_written) IN
              /\ t_art' = Some([rows |-> (IF t_written = 0 THEN 0 ELSE The(t_art).rows) + n,
                                meta |-> None])
              /\ t_written' = t_written + n
              /\ t_pc' = IF data_exhausted(t_written + n, t_in.rows) THEN "meta" ELSE "write"
              /\ UNCHANGED t_error
         ELSE /\ t_pc' = "error"
              /\ t_error' = Some("TileDBError")
              /\ UNCHANGED <<t_art, t_written>>
  /\ UNCHANGED <<NotRemote, t_in, t_paths, t_token, t_csrf, t_http, t_resp, t_log,
                 t_result>>

\* create_tiledb lines 88-97: the secret is generated and embedded with the
\* version and the time.  Opening an array that no chunk created may fail.
RemoteMeta ==
  /\ t_pc = "meta"
  /\ \E secret \in Secrets, ok \in BOOLEAN :
       LET array == IF IsNone(t_art) THEN [rows |-> 0, meta |-> None] ELSE The(t_art) IN
       /\ t_token' = Some(secret)
       /\ IF ok
            THEN /\ t_art' = Some([array EXCEPT !.meta =
                                     Some([version |-> OMERO_TILEDB_VERSION,
                                           initialized |-> "time",
                                           SecretToken |-> secret])])
                 /\ t_pc' = "register"
                 /\ t_log' = t_log \o <<[level |-> "debug", mentions |-> <<>>],
                                        [level |-> "info", mentions |-> <<>>]>>
                 /\ UNCHANGED t_error
            ELSE /\ t_pc' = "error"
                 /\ t_error' = Some("TileDBError")
                 /\ t_log' = Append(t_log, [level |-> "debug", mentions |-> <<>>])
                 /\ UNCHANGED t_art
  /\ UNCHANGED <<NotRemote, t_in, t_paths, t_written, t_csrf, t_http, t_resp, t_result>>

\* The URLs of register_table lines 106-115.
token_url == <<"https://", The(t_in.server)>> \o fix_prefix(t_in.prefix) \o <<TOKEN_ENDPOINT>>
target_url ==
  <<"https://", The(t_in.server)>> \o fix_prefix(t_in.prefix)
    \o <<REGISTER_ENDPOINT, "?bsession=", "session-id">>

\* register_table lines 121-125: the JSON body of the POST.
register_payload(remote_path, table_name, links) ==
  [uri |-> remote_path, name |-> table_name,
   targets |-> [i \in 1..Len(links) |-> <<links[i][1], ":", links[i][2]>>]]

\* register_table lines 126-131: the headers of the POST.
register_headersSwapped(sec_token, csrf, server) ==
  <<<<"Content-Type", "application/json">>,
    <<SEC_TOKEN_HEADER, csrf>>,
    <<CSRF_TOKEN_HEADER, sec_token>>,
    <<"Referer", <<"https://", server>>>>>>
register_headers(sec_token, csrf, server) ==
  <<<<"Content-Type", "application/json">>,
    <<SEC_TOKEN_HEADER, sec_token>>,
    <<CSRF_TOKEN_HEADER, csrf>>,
    <<"Referer", <<"https://", server>>>>>>

\* register_table lines 103-119: the connector is checked, the anti-forgery
\* token is fetched with a GET and the response is checked.
RemoteGet ==
  /\ t_pc = "register"
  /\ IF IsNone(t_in.server)
       THEN /\ t_pc' = "error"
            /\ t_error' = Some("ValueError: unknown server")
            /\ UNCHANGED <<t_http, t_resp, t_log, t_csrf>>
     ELSE IF ~t_in.client
       THEN /\ t_pc' = "error"
            /\ t_error' = Some("ValueError: client is not initialised")
            /\ UNCHANGED <<t_http, t_resp, t_log, t_csrf>>
     ELSE \E token_result \in Responses :
            LET token_data == _check_response(token_result) IN
            /\ t_http' = Append(t_http, [method |-> "GET", url |-> token_url,
                                         headers |-> <<>>, json |-> None,
                                         cookies |-> None])
            /\ t_resp' = Append(t_resp, token_result)
            /\ t_log' = t_log \o <<[level |-> "debug", mentions |-> <<The(t_in.server)>>]>>
                              \o token_data.log
            /\ IF ~IsNone(token_data.raised)
                 THEN /\ t_pc' = "error"
                      /\ t_error' = token_data.raised
                      /\ UNCHANGED t_csrf
               ELSE IF IsNone(csrf_of(The(token_data.content)))
                 THEN /\ t_pc' = "error"
                      /\ t_error' = Some("KeyError")
                      /\ UNCHANGED t_csrf
               ELSE /\ t_pc' = "post"
                    /\ t_csrf' = csrf_of(The(token_data.content))
                    /\ UNCHANGED t_error
  /\ UNCHANGED <<NotRemote, t_in, t_paths, t_art, t_written, t_token, t_result>>

\* register_table lines 121-139: the registration POST and its answer.
RemotePost ==
  /\ t_pc = "post"
  /\ \E result \in Responses :
       LET payload == register_payload(The(t_paths).remote, t_in.table_name, t_in.links)
           headers == register_headers(The(t_token), The(t_csrf), The(t_in.server))
           content == _check_response(result)
           ann_id == IF IsNone(content.content) THEN None
                     ELSE file_annotation_of(The(content.content))
       IN
       /\ t_http' = Append(t_http, [method |-> "POST", url |-> target_url,
                                    headers |-> headers, json |-> Some(payload),
                                    cookies |-> Some(t_resp[Len(t_resp)])])
       /\ t_resp' = Append(t_resp, result)
       /\ t_log' = t_log
                     \o <<[level |-> "info", mentions |-> <<The(t_in.server)>>],
                          [level |-> "debug",
                           mentions |-> <<payload, headers, target_url>>]>>
                     \o content.log
                     \o (IF IsNone(ann_id) THEN <<>>
                         ELSE <<[level |-> "info", mentions |-> <<The(ann_id)>>]>>)
       /\ IF ~IsNone(content.raised)
            THEN /\ t_pc' = "error"
                 /\ t_error' = content.raised
                 /\ UNCHANGED t_result
          ELSE IF IsNone(ann_id)
            THEN /\ t_pc' = "error"
                 /\ t_error' = Some("KeyError")
                 /\ UNCHANGED t_result
          ELSE /\ t_pc' = "done"
               /\ t_result' = ann_id
               /\ UNCHANGED t_error
  /\ UNCHANGED <<NotRemote, t_in, t_paths, t_art, t_written, t_token, t_csrf>>

RemoteNext ==
  \/ RemoteResolve
  \/ RemoteCheckExists
  \/ RemoteWriteChunk
  \/ RemoteMeta
  \/ RemoteGet
  \/ RemotePost

\* No registration is running.
RemoteIdle ==
  /\ t_in = [local_path |-> [path |-> [dir |-> <<>>, name |-> [stem |-> "out", suffix |-> ""]],
                             is_dir |-> TRUE],
             table_name |-> [stem |-> "t", suffix |-> ""], remote_path |-> None,
             prefix |-> <<>>, exists |-> FALSE, rows |-> 0, chunk_size |-> None,
             server |-> None, client |-> FALSE, links |-> <<>>]
  /\ t_pc = "idle"
  /\ t_paths = None
  /\ t_art = None
  /\ t_written = 0
  /\ t_token = None
  /\ t_csrf = None
  /\ t_http = <<>>
  /\ t_resp = <<>>
  /\ t_log = <<>>
  /\ t_result = None
  /\ t_error = None

(* -------------------- upload.py: the chunk size alone ------------------ *)
\* The column counts a chunk size is computed for: the small ones, and
\* those around the number of values sent in one call.
ColumnCounts ==
  (1..MaxColumnCount)
    \cup {ValuesPerCall \div 2, ValuesPerCall - 1, ValuesPerCall, ValuesPerCall + 1,
          2 * ValuesPerCall}
\* The chunk sizes a caller gives.
ChunkArgs == {None, Some(1), Some(ChunkCeiling + 1)}

SizeInit ==
  /\ s_count \in ColumnCounts
  /\ s_arg \in ChunkArgs
  /\ s_pc = "start"
  /\ s_size = None
  /\ s_log = <<>>

\* create_table lines 197-199: the chunk size of the caller, or the one
\* computed from the number of columns.
SizeChoose ==
  /\ s_pc = "start"
  /\ s_pc' = "done"
  /\ s_size' = IF IsNone(s_arg) THEN Some(optimal_chunk_size(s_count)) ELSE s_arg
  /\ s_log' = IF IsNone(s_arg) THEN s_log \o optimal_chunk_size_log(s_count) ELSE s_log
  /\ UNCHANGED <<NotSize, s_count, s_arg>>

SizeNext == SizeChoose

\* No chunk size is being settled.
SizeIdle ==
  /\ s_count = 1
  /\ s_arg = None
  /\ s_pc = "idle"
  /\ s_size = None
  /\ s_log = <<>>

(* --------------------------- specifications ---------------------------- *)
\* A table-open call with every shape of identifier arguments, against one
\* small table.
InitOpen ==
  /\ FetchInit(IdChoices, IdChoices, {<<<<0, 1>>, <<1, 0>>>>}, {<<>>}, {1})
  /\ PushIdle
  /\ ConnIdle
  /\ RemoteIdle
  /\ SizeIdle
  /\ SweepIdle
  /\ UploadIdle

\* A fetch with every table, column selection, row addressing and chunk
\* size, for one valid identifier.
InitFetch ==
  /\ FetchInit({Some(1)}, {None}, Tables, ColumnNameChoices, 1..MaxChunk)
  /\ PushIdle
  /\ ConnIdle
  /\ RemoteIdle
  /\ SizeIdle
  /\ SweepIdle
  /\ UploadIdle

\* A push of every source, link list and chunk size.
InitPush ==
  /\ PushInit({"frame", "csv"}, DtypeChoices, SourceTables, LinkChoices,
              {None} \cup {Some(c) : c \in 1..MaxPushChunk})
  /\ FetchIdle
  /\ ConnIdle
  /\ RemoteIdle
  /\ SizeIdle
  /\ SweepIdle
  /\ UploadIdle

\* A connector built from every combination of arguments, then used.
InitConn ==
  /\ ConnInit
  /\ FetchIdle
  /\ PushIdle
  /\ RemoteIdle
  /\ SizeIdle
  /\ SweepIdle
  /\ UploadIdle

\* create_remote_table with every shape of paths, an artifact that exists or
\* not, and every answer of the two endpoints.
InitRemote ==
  /\ RemoteInit(LocalPaths, Names, RemotePaths, Prefixes)
  /\ FetchIdle
  /\ PushIdle
  /\ ConnIdle
  /\ SizeIdle
  /\ SweepIdle
  /\ UploadIdle

\* A chunk size settled for every column count and caller's chunk size.
InitSize ==
  /\ SizeInit
  /\ FetchIdle
  /\ PushIdle
  /\ ConnIdle
  /\ RemoteIdle
  /\ SweepIdle
  /\ UploadIdle

\* The exit sweep over every registry of up to MaxConnectors connectors.
InitSweep ==
  /\ SweepInit
  /\ FetchIdle
  /\ PushIdle
  /\ ConnIdle
  /\ RemoteIdle
  /\ SizeIdle
  /\ UploadIdle

\* upload_table with every shape of links and parent.
InitUpload ==
  /\ UploadInit
  /\ FetchIdle
  /\ PushIdle
  /\ ConnIdle
  /\ RemoteIdle
  /\ SizeIdle
  /\ SweepIdle

\* One windowed fetch and one push side by side, each with a source of up to
\* two rows moved one row at a time.
InitTransfer ==
  /\ FetchInit({Some(1)}, {None}, {<<>>, <<<<0, 1>>, <<1, 0>>>>}, {<<>>}, {1})
  /\ f_op \in WindowOps /\ f_mode \in {"range", "rows"}
  /\ omero_connector = None
  /\ PushInit({"frame"}, {<<[name |-> "id", kind |-> "i"], [name |-> "name", kind |-> "O"]>>},
              {<<>>, <<<<Some("1"), Some("a")>>, <<Some("2"), None>>>>},
              {<<[type |-> "Image", id |-> 1]>>}, {Some(1)})
  /\ ConnIdle
  /\ RemoteIdle
  /\ SizeIdle
  /\ SweepIdle
  /\ UploadIdle

TransferNext ==
  \/ FetchValidate
  \/ FetchConnect
  \/ FetchGetTable
  \/ FetchHeaders
  \/ FetchRows
  \/ FetchWindow
  \/ FetchWindowFail
  \/ FetchFinish
  \/ PushValidate
  \/ PushInfer
  \/ PushNewTable
  \/ PushInitialize
  \/ PushChunk
  \/ PushAnnotate
  \/ PushLink

SpecOpen == InitOpen /\ [][FetchNext]_vars
SpecFetch == InitFetch /\ [][FetchNext]_vars
SpecPush == InitPush /\ [][PushNext]_vars
SpecConn == InitConn /\ [][ConnNext]_vars
SpecRemote == InitRemote /\ [][RemoteNext]_vars
SpecSize == InitSize /\ [][SizeNext]_vars
SpecSweep == InitSweep /\ [][SweepNext]_vars
SpecTransfer == InitTransfer /\ [][TransferNext]_vars
SpecUpload == InitUpload /\ [][UploadNext]_vars

(* ------------------------ claims on the fetch -------------------------- *)
\* The frame one unwindowed read of the whole table yields.
SingleFetch(t, cols) ==
  LET data == TableRead(t, cols, 0, Len(t)) IN
  Frame(BufferAddAll(<<>>, data.columns), data.rowNumbers)

\* C1: for every chunk size in [1, rowCount], read_table in range-scan mode
\* returns the values and the row labels, in the row order, of a single
\* unwindowed fetch of the same table and columns.
C1_ChunkedEqualsUnwindowed ==
  (f_pc = "done" /\ f_op = "read_table" /\ f_mode = "range"
     /\ chunk_size \in 1..Len(f_table))
    => df = Some(SingleFetch(f_table, target_cols))

\* C1 witness: a table of three rows, not all alike, fetched with both
\* columns in two windows, the last one short.
C1_Witness ==
  /\ f_pc = "done" /\ f_op = "read_table" /\ f_mode = "range"
  /\ Len(f_table) = 3 /\ chunk_size = 2 /\ Len(target_cols) = 2
  /\ f_table[1] # f_table[3]
  /\ Count(f_calls, "read") = 2

\* C5: a table-open call in which both identifiers are supplied, or neither,
\* fails before any connection is created or remote call is made; with
\* exactly one supplied, the call goes on with that identifier and its kind.
C5_BothOrNeitherRejected ==
  f_pc # "start" =>
    IF IsNone(file_id) = IsNone(annotation_id)
      THEN f_pc = "error" /\ f_calls = <<>>
      ELSE (f_op \in WindowOps /\ f_mode = "both")
             \/ (/\ object_id = (IF IsNone(file_id) THEN annotation_id ELSE file_id)
                 /\ object_type = (IF IsNone(file_id) THEN "FileAnnotation"
                                                      ELSE "OriginalFile"))

\* C7: every table handle a fetch operation opened is closed exactly once by
\* the time the operation returns or raises.
C7_HandleClosedOnce ==
  f_pc \in {"done", "error"} => Count(f_calls, "close") = Count(f_calls, "openTable")

\* The requested names that name a column of the table, and those that do
\* not.
Matched == {n \in SeqToSet(column_names) : n \in SeqToSet(Heads)}
Unmatched == SeqToSet(column_names) \ SeqToSet(Heads)

\* C24: for every non-empty list of requested column names, some or all of
\* which may name no column, read_table drops the unmatched names, logs one
\* warning listing exactly the unmatched names if and only if there is one,
\* never fails for want of a matched column (checked for range scans), and
\* returns the matched columns.
C24_UnmatchedNamesDropped ==
  (f_op = "read_table" /\ Len(column_names) > 0) =>
    /\ f_pc \in {"rows", "loop", "done"} =>
         f_warnings = (IF Unmatched # {} THEN <<Unmatched>> ELSE <<>>)
    /\ (f_pc = "done" /\ num_rows > 0) =>
         {The(df).columns[k].name : k \in 1..Len(The(df).columns)} = Matched
    /\ f_mode = "range" => f_error # Some("IndexError")

\* The position in the call log of the first window read, 0 when there is
\* none.
FirstWindow ==
  LET r == First(f_calls, "read")
      sl == First(f_calls, "slice")
  IN IF r = 0 THEN sl ELSE IF sl = 0 THEN r ELSE Min(r, sl)
\* A call named n was made once, before any window was read.
OnceBeforeWindows(n) ==
  /\ Count(f_calls, n) = 1
  /\ FirstWindow > 0 => First(f_calls, n) < FirstWindow

\* C25: read_table and download_table given both a row-index list and a
\* query fail before any connection is created; otherwise the query is
\* evaluated exactly once and an explicit index list is materialised exactly
\* once, both before the first window is read.
C25_RowsDeterminedOnce ==
  f_op \in WindowOps =>
    /\ f_mode = "both" => (f_pc \in {"start", "error"} /\ f_calls = <<>>)
    /\ Count(f_calls, "getWhereList") = 0 \/ f_mode = "query"
    /\ Count(f_calls, "list") = 0 \/ f_mode = "rows"
    /\ (f_mode = "query" /\ (f_pc \in {"loop", "done"} \/ FirstWindow > 0)) =>
         OnceBeforeWindows("getWhereList")
    /\ (f_mode = "rows" /\ (f_pc \in {"loop", "done"} \/ FirstWindow > 0)) =>
         OnceBeforeWindows("list")

\* C25 witness: a query selecting two rows was evaluated once and its rows
\* were downloaded in two windows.
C25_Witness ==
  /\ f_op = "download_table" /\ f_mode = "query" /\ f_pc = "done"
  /\ Count(f_calls, "getWhereList") = 1 /\ Count(f_calls, "slice") = 2

\* The lookup _get_original_file makes for the kind of identifier.
Lookup == IF object_type = "FileAnnotation" THEN "findByQuery" ELSE "find"

\* C28: _get_table checks the mimetype of the file it looked up; when it is
\* not the table marker the call fails with the unsupported-format error
\* and openTable is never called; for an annotation the underlying file is
\* looked up before the check.
C28_MimetypeCheckedBeforeOpen ==
  /\ (~IsNone(f_file) /\ f_file # Some("OMERO.tables")) =>
       /\ f_pc = "error"
       /\ f_error = Some("ValueError: not a valid OMERO.tables object")
       /\ Count(f_calls, "openTable") = 0 /\ Count(f_calls, "sharedResources") = 0
  /\ ~IsNone(f_file) => Count(f_calls, Lookup) = 1
  /\ Count(f_calls, "openTable") > 0 =>
       /\ f_file = Some("OMERO.tables")
       /\ Count(f_calls, "openTable") = 1
       /\ First(f_calls, Lookup) > 0
       /\ First(f_calls, Lookup) < First(f_calls, "openTable")

\* C28 witness: the file under an annotation was looked up, is no table,
\* and the call failed.
C28_Witness ==
  /\ object_type = "FileAnnotation" /\ f_file = Some("text/csv")
  /\ Count(f_calls, "findByQuery") = 1 /\ f_pc = "error"

\* The row numbers the server returns for the windows from first on, in
\* window order.
RECURSIVE ReturnedRowNumbers(_)
ReturnedRowNumbers(first) ==
  IF first >= num_rows THEN <<>>
  ELSE FetchData(f_table, target_cols, rows, first, chunk_size, num_rows).rowNumbers
         \o ReturnedRowNumbers(first + chunk_size)

\* C32: the row labels of the table read_table returns are the row numbers
\* the server returned, window after window, cut to the number of value
\* rows, so there are as many labels as value rows.
C32_LabelsAreReturnedRowNumbers ==
  (f_op = "read_table" /\ f_pc = "done") =>
    /\ The(df).index = Slice(ReturnedRowNumbers(0), 0, FrameLen(The(df).columns))
    /\ Len(The(df).index) = FrameLen(The(df).columns)
    /\ \A k \in 1..Len(The(df).columns) :
         Len(The(df).columns[k].values) = Len(The(df).index)

\* C32 witness: rows 0, 2 and 1 were asked of a table of two rows; the
\* window for row 2 held no value and two labels were kept.
C32_Witness ==
  /\ f_op = "read_table" /\ f_pc = "done" /\ f_mode = "rows"
  /\ rows = Some(<<0, 2, 1>>) /\ Len(f_table) = 2 /\ chunk_size = 1
  /\ Len(The(df).index) = 2

\* The row labels and the number of value rows of the frames download_table
\* wrote, in the order written.
RECURSIVE WrittenLabels(_)
WrittenLabels(frames) ==
  IF frames = <<>> THEN <<>> ELSE Head(frames).index \o WrittenLabels(Tail(frames))
RECURSIVE WrittenRows(_)
WrittenRows(frames) ==
  IF frames = <<>> THEN 0 ELSE FrameLen(Head(frames).columns) + WrittenRows(Tail(frames))

\* C37: for the same table and request, download_table gives every value
\* row the label read_table gives it, which is the returned row numbers in
\* window order cut to the number of value rows, also when a window of an
\* index list returns fewer values than row numbers.
C37_SameLabelsBothWays ==
  (f_op = "download_table" /\ f_pc = "done") =>
    WrittenLabels(csv) = Slice(ReturnedRowNumbers(0), 0, WrittenRows(csv))

(* ------------------------- claims on the push -------------------------- *)
\* The table pandas hands to create_table: the DataFrame, or the CSV file
\* as read.
Original == IF p_kind = "csv" THEN ReadCsv(p_data) ELSE p_data
IsText(k) == p_dtypes[k].kind \in {"O", "S", "U"}
\* What a cell of the source is expected to come back as: a missing text
\* as "".
Expected(i, k) ==
  IF IsText(k) /\ IsNone(p_data[i][k]) THEN Some("") ELSE p_data[i][k]
Transferred == p_pc \in {"linking", "done"}

\* C2 as claimed: once every chunk is transmitted, the rows of the new
\* table equal the rows of the source, in the same order.
C2_StoredEqualsSource == Transferred => r_rows = p_data

\* C2 as amended: the chunks are sent one at a time in source order, each
\* source row exactly once, and the rows of the new table are the rows of
\* the source in the same order, a missing value of a Text column coming
\* back as the empty string.
C2_StoredInSourceOrder ==
  /\ p_pc \in {"writing", "linking", "done"} =>
       /\ Len(r_rows) = Min(p_next, Len(p_data))
       /\ \A i \in 1..Len(r_rows) : \A k \in 1..Len(p_dtypes) :
            r_rows[i][k] = Expected(i, k)
       /\ \A j \in 1..Len(r_sent) :
            r_sent[j].n = Min(p_chunk, Len(p_data) - (j - 1) * p_chunk)
       /\ Count(p_calls, "addData") = Len(r_sent)
  /\ Transferred => Len(r_rows) = Len(p_data)

\* C2 witness: three distinct rows, one with a missing text, pushed in two
\* chunks and stored.
C2_Witness ==
  /\ p_pc = "done" /\ Len(p_data) = 3 /\ p_chunk = 2 /\ Len(r_sent) = 2
  /\ p_data[1] # p_data[2] /\ p_data[2] # p_data[3] /\ p_data[1] # p_data[3]
  /\ \E i \in 1..3 : IsNone(p_data[i][2]) /\ r_rows[i][2] = Some("")

\* C3: every non-text value stored by the push equals the value of the
\* pushed table, every text value equals it except that a missing value is
\* stored as the empty string, and no missing value is transmitted in a
\* Text column.
C3_RoundTrip ==
  /\ \A i \in 1..Len(r_rows) : \A k \in 1..Len(p_dtypes) :
       /\ ~IsText(k) => r_rows[i][k] = Original[i][k]
       /\ IsText(k) /\ ~IsNone(Original[i][k]) => r_rows[i][k] = Original[i][k]
       /\ IsText(k) /\ IsNone(Original[i][k]) => r_rows[i][k] = Some("")
  /\ \A k \in 1..Len(columns) :
       columns[k].kind = "StringColumn" =>
         \A i \in 1..Len(columns[k].values) : ~IsNone(columns[k].values[i])

\* C3 witness: a stored table with a text value kept and a missing text
\* stored as the empty string beside unchanged non-text values.
C3_Witness ==
  /\ p_pc = "done" /\ Len(r_rows) >= 2
  /\ \E i \in 1..Len(r_rows) : IsNone(Original[i][2]) /\ r_rows[i][2] = Some("")
  /\ \E i \in 1..Len(r_rows) : r_rows[i][2] = Some("ccc")

\* Some target resolves to nothing, or two targets are in different groups.
BadTargets ==
  LET n == NormalizeLinks(p_links) IN
  \/ \E k \in 1..Len(n) : n[k].type \notin OBJECT_TYPES \/ IsNone(FindGroup(n[k].type, n[k].id))
  \/ \E j, k \in 1..Len(n) : FindGroup(n[j].type, n[j].id) # FindGroup(n[k].type, n[k].id)

\* C4: when the targets are not all in one group or a target does not
\* exist, create_table fails in the validation: no schema is inferred, the
\* source is not read, no remote table is created, initialised or written.
C4_PreflightRejects ==
  (BadTargets /\ p_pc # "start") =>
    /\ p_pc = "error"
    /\ p_reads = <<>>
    /\ columns = <<>>
    /\ \A i \in 1..Len(p_calls) : p_calls[i] = "find"
    /\ IsNone(table) /\ IsNone(r_init) /\ r_sent = <<>> /\ r_rows = <<>>

\* C4 witness: two existing targets of different groups, both looked up,
\* and the push failed.
C4_Witness ==
  /\ p_pc = "error"
  /\ Len(p_links) = 2
  /\ FindGroup(p_links[1].type, p_links[1].id) = Some(1)
  /\ FindGroup(p_links[2].type, p_links[2].id) = Some(2)
  /\ p_calls = <<"find", "find">>

\* C6: once the new table is opened it is closed exactly once on every
\* exit path of create_table, and not before.
C6_TableClosedOnce ==
  /\ (p_pc \in {"done", "error"} /\ ~IsNone(table)) => Count(p_calls, "close") = 1
  /\ (p_pc \notin {"done", "error"} \/ IsNone(table)) => Count(p_calls, "close") = 0
  /\ Count(p_calls, "close") = 1 => p_calls[Len(p_calls)] = "close"

\* C6 witness: the second chunk write failed and the table was closed.
C6_Witness ==
  /\ p_pc = "error" /\ ~IsNone(table)
  /\ Len(r_sent) = 1 /\ Count(p_calls, "addData") = 2
  /\ Count(p_calls, "close") = 1

\* C8: the schema is initialised once, before the first chunk write, and
\* the descriptors sent with every chunk are those of the initialisation.
C8_SchemaFixed ==
  /\ Count(p_calls, "initialize") <= 1
  /\ Count(p_calls, "addData") > 0 =>
       /\ First(p_calls, "initialize") > 0
       /\ First(p_calls, "initialize") < First(p_calls, "addData")
       /\ ~IsNone(r_init)
  /\ \A j \in 1..Len(r_sent) : r_sent[j].cols = The(r_init)

\* C8 witness: two chunks of different text widths were written.
C8_Witness ==
  /\ Len(r_sent) = 2 /\ p_chunk = 1
  /\ p_data[1][2] = Some("ccc") /\ p_data[2][2] = Some("a")

\* The longest string of column k over the whole source, at least 1.
SourceWidth(k) ==
  LET m == StrLenMax(ColumnCells(Original, k)) IN
  IF IsNone(m) THEN 1 ELSE Max(1, The(m))

\* C9: the width inferred for every Text column is the longest string of
\* the column over the whole source, with a floor of 1, and never 0.
C9_WidthIsSourceMax ==
  p_pc \notin {"start", "validated", "error"} =>
    \A k \in 1..Len(columns) :
      columns[k].kind = "StringColumn" =>
        /\ The(columns[k].size) = SourceWidth(k)
        /\ The(columns[k].size) # 0

Stepped(ops) == c_ops' = c_ops + 1 /\ c_last' \in ops
\* A session request (joinSession or createSession) is among the calls.
Requests(calls) == Count(calls, "joinSession") + Count(calls, "createSession")

C12_ExternalSurvivesScope ==
  [][(Stepped({"enter", "exit", "exit_exc"}) /\ conn.external_client /\ conn.client = Some(1)) =>
       /\ conn'.client = conn.client
       /\ conn'.gateway = conn.gateway
       /\ sessions' = sessions
       /\ Count(c_calls', "closeSession") = 0
    ]_vars

\* C12 witness: a scope on an external client was entered and left.
C12_Witness ==
  /\ c_last = "exit" /\ c_prev = "enter"
  /\ conn.external_client /\ conn.client = Some(1)
  /\ sessions = <<0>>

\* C13: neither __del__ nor the process-exit sweep calls closeSession on an
\* externally supplied client.
C13_ExternalNeverAutoClosed ==
  [][(Stepped({"del", "cleanup"}) /\ conn.external_client /\ conn.client = Some(1)) =>
       /\ sessions' = sessions
       /\ conn'.client = conn.client
    ]_vars

\* C14: connect(interactive=False), also when made by __enter__, on a
\* connector whose details are insufficient raises, makes no call, creates
\* no client and leaves the connector as it was.
C14_InsufficientFailsFirst ==
  [][(Stepped({"connect", "enter"}) /\ ~c_arg'.interactive /\ need_connection_details(conn)) =>
       /\ c_raised'
       /\ c_calls' = <<>>
       /\ sessions' = sessions
       /\ conn' = conn
       /\ ~connected(conn')
    ]_vars

\* C14 witness: a non-interactive connect without a server has raised.
C14_Witness ==
  /\ c_last = "connect" /\ ~c_arg.interactive
  /\ c_raised /\ IsNone(conn.server) /\ ~IsNone(conn.session_key)
  /\ sessions = <<>>

\* C15: when the server refuses joinSession or createSession, connect
\* reports the failure (it returns False, __enter__ raises), client and
\* session are unset, no client object is kept and no keep-alive is started.
C15_FailedSessionResets ==
  [][(Stepped({"connect", "enter"}) /\ Requests(c_calls') > 0 /\ ~c_arg'.accepted) =>
       /\ IsNone(conn'.client) /\ IsNone(conn'.session)
       /\ ~connected(conn')
       /\ sessions' = sessions
       /\ Count(c_calls', "enableKeepAlive") = 0
       /\ c_last' = "connect" => c_ret' = Some(FALSE)
       /\ c_last' = "enter" => c_raised'
    ]_vars

\* C15 witness: a join by session key was refused.
C15_Witness ==
  /\ c_last = "connect" /\ ~c_arg.accepted
  /\ c_calls = <<"joinSession">>
  /\ c_ret = Some(FALSE)

\* C16: need_connection_details() is true exactly when no client is held and
\* the server is unset or there is neither a session key nor both a username
\* and a password.
C16_NeedDetailsIff ==
  need_connection_details(conn) <=>
    /\ IsNone(conn.client)
    /\ \/ IsNone(conn.server)
       \/ ~(\/ ~IsNone(conn.session_key)
            \/ ~IsNone(conn.username) /\ ~IsNone(conn.password))

\* C16 witness: connect raised on a connector with a server and a username
\* but no password and no session key.
C16_Witness ==
  /\ c_last = "connect" /\ c_raised
  /\ ~IsNone(conn.server) /\ ~IsNone(conn.username)
  /\ IsNone(conn.password) /\ IsNone(conn.session_key)

\* C17: a held client makes connect return True without a call; otherwise a
\* session key is joined and createSession is not called; otherwise the
\* username and password create a session; the token is looked up and used
\* only when the caller gave no client, no server and no username; the
\* prompt appears only when the details are insufficient; one connect makes
\* at most one session request.
C17_CredentialPriority ==
  /\ [](/\ (c_last = "init" /\ Count(c_calls, "get_token") > 0) =>
             IsNone(c_init.client) /\ IsNone(c_init.server) /\ IsNone(c_init.username)
        /\ conn.session_key = Some("token-key") =>
             IsNone(c_init.client) /\ IsNone(c_init.server) /\ IsNone(c_init.username))
  /\ [][Stepped({"connect", "enter"}) =>
          /\ connected(conn) =>
               /\ c_calls' = <<>>
               /\ c_last' = "connect" => c_ret' = Some(TRUE)
          /\ Count(c_calls', "prompt") > 0 =>
               c_arg'.interactive /\ need_connection_details(conn)
          /\ Requests(c_calls') <= 1
          /\ (Requests(c_calls') = 1 /\ ~IsNone(conn.session_key)) =>
               Count(c_calls', "createSession") = 0
          /\ (~connected(conn) /\ ~need_connection_details(conn)) =>
               IF ~IsNone(conn.session_key)
                 THEN Count(c_calls', "joinSession") = 1
                 ELSE Count(c_calls', "createSession") = 1
      ]_vars

\* C17 witness: a connector given a session key and a username and password
\* connected by joining the session.
C17_Witness ==
  /\ c_last = "connect" /\ c_ret = Some(TRUE)
  /\ ~IsNone(conn.session_key) /\ ~IsNone(conn.username) /\ ~IsNone(conn.password)
  /\ c_calls = <<"joinSession", "enableKeepAlive">>

(* --------------------- claims on the registration ---------------------- *)
\* The status of a response is in [200, 300).
Is2xx(response) == 200 <= response.status_code /\ response.status_code < 300
\* The POSTs among the requests sent.
Posts == {i \in 1..Len(t_http) : t_http[i].method = "POST"}

\* C18: when the token GET is answered with a status outside 2xx,
\* register_table raises (an HTTPError, or the decoding error of a JSON body
\* that does not parse) and no POST is ever sent.
C18_RejectedGetSendsNoPost ==
  /\ (Len(t_resp) >= 1 /\ ~Is2xx(t_resp[1])) =>
       /\ t_pc = "error"
       /\ IsNone(t_result)
       /\ Posts = {}
       /\ Len(t_http) = 1
       /\ t_error \in {Some("HTTPError"), Some("HTTPError: Unhandled response code"),
                       Some("JSONDecodeError")}
       /\ (t_resp[1].body # "text" \/ t_resp[1].content_type # "application/json") =>
            t_error = Some(IF raise_for_status(t_resp[1])
                             THEN "HTTPError" ELSE "HTTPError: Unhandled response code")
  /\ Posts # {} => Is2xx(t_resp[1])

\* C18 witness: the token endpoint answered 403 and the call has failed
\* having sent the GET alone.
C18_Witness ==
  /\ Len(t_resp) = 1 /\ t_resp[1].status_code = 403
  /\ t_pc = "error" /\ t_error = Some("HTTPError")
  /\ Len(t_http) = 1 /\ t_http[1].method = "GET"

\* C19: a POST answered with a 2xx status and the body of the endpoint,
\* {"data": {"file_annotation": id}}, makes register_table return that id;
\* one answered with any other status makes it raise and return no id,
\* whatever the body; an id is returned in no other case.
C19_StatusDecidesPost ==
  /\ Len(t_resp) = 2 =>
       IF Is2xx(t_resp[2])
         THEN IF ~IsNone(file_annotation_of(t_resp[2].body))
                THEN /\ t_pc = "done"
                     /\ t_result = file_annotation_of(t_resp[2].body)
                     /\ IsNone(t_error)
                ELSE t_pc = "error" /\ IsNone(t_result) /\ ~IsNone(t_error)
         ELSE /\ t_pc = "error"
              /\ IsNone(t_result)
              /\ t_error \in {Some("HTTPError"), Some("HTTPError: Unhandled response code"),
                              Some("JSONDecodeError")}
  /\ ~IsNone(t_result) => Len(t_resp) = 2 /\ Is2xx(t_resp[2])

\* C19 witness: the POST was answered 302 with a body holding an id, and
\* the call raised.
C19_Witness ==
  /\ Len(t_resp) = 2 /\ t_resp[2].status_code = 302 /\ t_resp[2].body = "json:id9"
  /\ t_pc = "error" /\ IsNone(t_result)

\* C20: when the resolved write path exists, create_tiledb raises before
\* anything is written: the artifact there and its metadata stay as they
\* were, no secret is generated and no HTTP request is sent.
C20_ExistingPathFailsFast ==
  t_in.exists =>
    /\ t_art = OldArtifact
    /\ IsNone(t_token)
    /\ t_http = <<>>
    /\ t_written = 0
    /\ t_pc \in {"resolve", "create", "error"}
    /\ t_pc = "error" => t_error = Some("ValueError: already exists")

\* C20 witness: the path made from the table name inside an existing
\* directory exists, and the call has failed.
C20_Witness ==
  /\ t_in.exists /\ t_in.local_path.is_dir
  /\ ~IsNone(t_paths)
  /\ The(t_paths).write.name = [stem |-> "t", suffix |-> ".tiledb"]
  /\ t_pc = "error" /\ t_error = Some("ValueError: already exists")

\* The JSON body is made of the remote path, the table name and the link
\* targets, all of them given before the secret exists.
SecretFreeBody ==
  [uri |-> The(t_paths).remote, name |-> t_in.table_name,
   targets |-> [i \in 1..Len(t_in.links) |->
                  <<t_in.links[i][1], ":", t_in.links[i][2]>>]]
\* The values a request sends under the header called name.
HeaderValues(request, name) ==
  {request.headers[i][2] :
     i \in {j \in 1..Len(request.headers) : request.headers[j][1] = name}}

\* C21: the secret in the X-SecretToken header of the POST is the secret
\* that the write before it embedded in the artifact's metadata; it is
\* generated once and never again; and it is sent nowhere else: the GET
\* carries no header and no body, no URL holds it, and the JSON body of the
\* POST does not hold it.
C21_SecretOnlyInPostHeader ==
  /\ [](\A i \in 1..Len(t_http) :
         LET request == t_http[i] IN
         /\ ~IsNone(t_token) /\ ~IsNone(t_art) /\ ~IsNone(The(t_art).meta)
         /\ The(t_token) = The(The(t_art).meta).SecretToken
         /\ The(t_token) \notin SeqToSet(request.url)
         /\ request.method = "GET" =>
              request.headers = <<>> /\ IsNone(request.json)
         /\ request.method = "POST" =>
              /\ HeaderValues(request, SEC_TOKEN_HEADER) = {The(t_token)}
              /\ HeaderValues(request, CSRF_TOKEN_HEADER) = {The(t_csrf)}
              /\ request.json = Some(SecretFreeBody))
  /\ [][~IsNone(t_token) => t_token' = t_token]_vars

\* C21 witness: a table with a link target was written and the POST was
\* sent with the secret the artifact holds.
C21_Witness ==
  /\ Len(t_http) = 2 /\ t_http[2].method = "POST"
  /\ t_in.links # <<>>
  /\ ~IsNone(t_art) /\ ~IsNone(The(t_art).meta)
  /\ The(The(t_art).meta).SecretToken = "secret-2"
  /\ HeaderValues(t_http[2], SEC_TOKEN_HEADER) = {"secret-2"}

\* C26: in a push with more than one target, the refusal of the link to a
\* target other than the first does not fail the push: it is logged as a
\* warning, the annotation id is still returned, and the link to the first
\* target exists.
C26_SecondaryLinkFailureTolerated ==
  (Len(p_links) > 1 /\ ~IsNone(r_linkfail) /\ The(r_linkfail) > 1) =>
    /\ p_pc = "done"
    /\ ~IsNone(p_result)
    /\ \E i \in 1..Len(p_warnings) :
         p_warnings[i] \notin {"roi_only", "Limiting automatic chunk size"}
    /\ r_links # <<>> /\ Head(r_links) = Head(NormalizeLinks(p_links))

\* The number of chunks the source is sent in.
ChunkCount == Len(ChunkStarts(0, Len(p_data), p_chunk))

\* C27: the reference entity is created only after every chunk has been
\* transmitted, and links only once it exists; when a chunk transfer fails
\* no reference entity and no link is created; when creating the reference
\* entity or the primary link fails, the push raises and returns no id.
C27_AnnotateThenLink ==
  /\ Count(p_calls, "saveAndReturnObject") > 0 =>
       /\ Len(r_sent) = ChunkCount /\ Count(p_calls, "addData") = ChunkCount
       /\ Len(r_rows) = Len(p_data)
       /\ \A i \in 1..Len(p_calls) :
            p_calls[i] = "addData" => i < First(p_calls, "saveAndReturnObject")
  /\ (Count(p_calls, "saveArray") > 0 \/ r_links # <<>>) =>
       /\ ~IsNone(r_annotation)
       /\ First(p_calls, "saveAndReturnObject") < First(p_calls, "saveArray")
  /\ Count(p_calls, "addData") > Len(r_sent) =>
       /\ p_pc = "error" /\ IsNone(p_result)
       /\ IsNone(r_annotation) /\ r_links = <<>>
       /\ Count(p_calls, "saveAndReturnObject") = 0 /\ Count(p_calls, "saveArray") = 0
  /\ (Count(p_calls, "saveAndReturnObject") > 0 /\ IsNone(r_annotation)) =>
       /\ p_pc = "error" /\ IsNone(p_result)
       /\ r_links = <<>> /\ Count(p_calls, "saveArray") = 0
  /\ r_linkfail = Some(1) => (p_pc = "error" /\ IsNone(p_result))
  /\ ~IsNone(p_result) => (p_result = r_annotation /\ r_links = NormalizeLinks(p_links))

\* C27 witness: two chunks were sent, the annotation was saved and its two
\* links were stored.
C27_Witness ==
  /\ p_pc = "done" /\ Len(r_sent) = 2 /\ Len(r_links) = 2
  /\ p_calls[Len(p_calls)] = "close" /\ p_calls[Len(p_calls) - 1] = "saveArray"

(* --------------------- claims: schema inference ------------------------ *)
\* The coarse kind of a dtype kind: signed and unsigned integers are
\* integers, the three string kinds are text.
CoarseKind(kind) ==
  CASE kind \in {"i", "u"} -> "integer"
    [] kind = "f" -> "float"
    [] kind \in {"O", "S", "U"} -> "text"
    [] kind = "b" -> "boolean"
    [] OTHER -> "other"
\* The column kind the fixed table gives a coarse kind.
FixedKind(coarse) ==
  CASE coarse = "integer" -> "LongColumn"
    [] coarse = "float" -> "DoubleColumn"
    [] coarse = "text" -> "StringColumn"
    [] coarse = "boolean" -> "BoolColumn"
\* The column kind claimed for a column of an in-memory table.
ClaimedKind(col) ==
  IF Lower(col.name) \in DOMAIN SPECIAL_NAMES /\ CoarseKind(col.kind) = "integer"
    THEN SPECIAL_NAMES[Lower(col.name)]
    ELSE FixedKind(CoarseKind(col.kind))
Unsupported == \E k \in 1..Len(p_dtypes) : CoarseKind(p_dtypes[k].kind) = "other"

\* C23: inference from an in-memory table gives every column the kind of
\* the fixed table for its coarse kind, and the entity kind of its name when
\* the name is a relationship name and the coarse kind is integer; a column
\* of any other kind makes inference fail, and no remote table is created.
C23_KindByFixedTable ==
  p_kind = "frame" =>
    /\ (p_pc \notin {"start", "validated", "error"} /\ ~Unsupported) =>
         /\ Len(columns) = Len(p_dtypes)
         /\ \A k \in 1..Len(columns) : columns[k].kind = ClaimedKind(p_dtypes[k])
    /\ Unsupported =>
         /\ p_pc \in {"start", "validated", "error"}
         /\ Count(p_calls, "newTable") = 0
         /\ IsNone(table)

C30_SweepNeverRaises ==
  /\ w_pc # "raised"
  /\ w_pc = "returned" => w_tried = Range(1, Len(w_reg) + 1)

(* ------------------------- claims: chunk size -------------------------- *)
\* C22: for every column count of at least 1, when the caller gives no chunk
\* size the effective chunk size is min(50000, max(1, 2000000 div count)),
\* which lies in 1..50000, and the size-reduced warning is logged exactly
\* when 2000000 div count exceeds 50000.
C22_ChunkSizeClamped ==
  (s_pc = "done" /\ IsNone(s_arg)) =>
    /\ s_count >= 1
    /\ s_size = Some(Min(50000, Max(1, 2000000 \div s_count)))
    /\ The(s_size) \in 1..50000
    /\ (s_log # <<>>) <=> (2000000 \div s_count > 50000)
    /\ Len(s_log) <= 1

\* C22 witness: 39 columns imply 51282 rows, which is cut to 50000 with a
\* warning.
C22_Witness ==
  /\ s_pc = "done" /\ IsNone(s_arg)
  /\ s_count = 39 /\ s_size = Some(50000) /\ Len(s_log) = 1

\* C33: the registration runs in strict sequence: every chunk of the
\* artifact is written, then the version, the creation time and the secret
\* are embedded in its metadata, then one GET fetches the anti-forgery
\* token, then one POST is sent with that token and the cookies of that GET
\* response; when a chunk write or the metadata write fails no HTTP request
\* is sent.
C33_StrictSequence ==
  /\ (~t_in.exists /\ ~IsNone(t_art) /\ ~IsNone(The(t_art).meta)) =>
       /\ t_written = t_in.rows /\ The(t_art).rows = t_in.rows
       /\ The(The(t_art).meta) = [version |-> OMERO_TILEDB_VERSION, initialized |-> "time",
                                   SecretToken |-> The(t_token)]
  /\ t_http # <<>> =>
       /\ ~IsNone(t_art) /\ ~IsNone(The(t_art).meta) /\ ~t_in.exists
       /\ Len(t_http) <= 2 /\ Len(t_resp) = Len(t_http)
       /\ t_http[1].method = "GET" /\ t_http[1].url = token_url
  /\ Len(t_http) = 2 =>
       /\ t_http[2].method = "POST" /\ t_http[2].url = target_url
       /\ raise_for_status(t_resp[1]) = FALSE /\ Is2xx(t_resp[1])
       /\ HeaderValues(t_http[2], CSRF_TOKEN_HEADER) = {The(csrf_of(t_resp[1].body))}
       /\ t_http[2].cookies = Some(t_resp[1])
  /\ t_error = Some("TileDBError") => t_http = <<>>
  /\ t_pc = "done" => Len(t_http) = 2

\* C33 witness: two chunks were written, the metadata embedded, and the GET
\* and the POST were answered.
C33_Witness ==
  /\ t_pc = "done" /\ t_written = 2 /\ t_in.chunk_size = Some(1)
  /\ Len(t_http) = 2 /\ t_http[2].cookies = Some(t_resp[1])

\* C34: after any sequence of connect, scope entry, scope exit, shutdown,
\* deletion and the exit sweep, a connector whose gateway or session is set
\* holds a client, connected is true exactly when a client is held, and
\* get_gateway raises whenever no client is held (and only then).
C34_ClientBacksGatewayAndSession ==
  /\ (~IsNone(conn.gateway) \/ ~IsNone(conn.session)) => ~IsNone(conn.client)
  /\ connected(conn) <=> ~IsNone(conn.client)
  /\ get_gateway(conn).raised <=> IsNone(conn.client)
  /\ c_last = "get_gateway" => (c_raised <=> IsNone(conn.client))

\* C34 witness: a connector that created its session was shut down and
\* get_gateway was then called on it and raised.
C34_Witness ==
  /\ c_last = "get_gateway" /\ c_prev \in {"shutdown", "exit"} /\ c_raised
  /\ IsNone(conn.client) /\ IsNone(conn.gateway) /\ IsNone(conn.session)
  /\ Len(sessions) > 0 /\ sessions[Len(sessions)] = 1 /\ ~conn.external_client

\* C35: when a scope entered on a connector created the temporary session,
\* leaving a scope nested inside it on the same connector leaves the session
\* connected; the session is shut down only when the outermost scope exits.
C35_NestedExitKeepsSession ==
  [][(/\ c_depth > 1 /\ c_depth' = c_depth - 1
      /\ conn.temp_session /\ connected(conn))
     => connected(conn')]_vars

\* C39: upload_table leaves the links collection the caller supplied
\* unchanged, whether it returns or raises, also when a parent target is
\* given that the collection did not hold.
C39_CallerLinksUnchanged == [][u_given' = u_given]_vars

\* C36: on every path on which connect() returns a value, the value equals
\* the connected state at the moment of return: True exactly when the
\* connector holds a live session, also when the session was made through the
\* console prompt.
C36_ReturnEqualsConnected ==
  (c_last = "connect" /\ ~IsNone(c_ret)) => (The(c_ret) <=> connected(conn))

\* C38: the schema inferred from a CSV file and the schema inferred from a
\* DataFrame give every column the same kind: whichever source the push
\* read, each inferred column has the kind both inferences choose for its
\* name and dtype, a relationship-named integer column included, whatever
\* the letter case of its name.
C38_SameKindBothSources ==
  (p_pc = "inferred" /\ Len(columns) = Len(p_dtypes)) =>
    \A k \in 1..Len(columns) :
      /\ columns[k].kind = ColClassFrame(p_dtypes[k].name, p_dtypes[k].kind)
      /\ columns[k].kind = ColClassCsv(p_dtypes[k].name, p_dtypes[k].kind)

\* The headers a log record spells out: only the record of the request
\* parameters (payload, headers, url) holds any; every other record
\* mentions at most a server name, a path or an annotation id.
LoggedHeaders(rec) == IF Len(rec.mentions) = 3 THEN rec.mentions[2] ELSE <<>>

\* C40: the secret token of the artifact is never written to the log, at
\* any level, while the artifact is created and registered: no log record
\* spells out the value of the secret header.
C40_SecretNeverLogged ==
  ~IsNone(t_token) =>
    \A i \in 1..Len(t_log) :
      \A j \in 1..Len(LoggedHeaders(t_log[i])) :
        LoggedHeaders(t_log[i])[j][1] = SEC_TOKEN_HEADER =>
          LoggedHeaders(t_log[i])[j][2] # The(t_token)

(* ----------------------- claims: failed transfers ---------------------- *)
\* The position of the last call named in ns in call log c, 0 if none.
LastOf(c, ns) ==
  IF \E i \in 1..Len(c) : c[i] \in ns
    THEN CHOOSE i \in 1..Len(c) : c[i] \in ns /\ \A j \in (i + 1)..Len(c) : c[j] \notin ns
    ELSE 0
\* Every call of log c after position i is named in ns.
OnlyAfter(c, i, ns) == \A j \in (i + 1)..Len(c) : c[j] \in ns
ReadFailed == f_error = Some("Ice.Exception")
WriteFailed == Count(p_calls, "addData") > Len(r_sent)

\* C31: a failed window read of a fetch and a failed chunk write of a push
\* end the operation at once with the error: the failed call was made once,
\* it is the last read or write of the operation, and no remote call other
\* than the release of the session or the table follows it, then or later.
C31_FailureNotRetried ==
  /\ [](/\ ReadFailed =>
           /\ f_pc = "error"
           /\ Count(f_calls, "read") + Count(f_calls, "slice") = start \div chunk_size + 1
           /\ OnlyAfter(f_calls, LastOf(f_calls, {"read", "slice"}), {"closeSession"})
        /\ WriteFailed =>
           /\ p_pc = "error" /\ IsNone(p_result)
           /\ Count(p_calls, "addData") = Len(r_sent) + 1
           /\ OnlyAfter(p_calls, LastOf(p_calls, {"addData"}), {"close"}))
  /\ [][(ReadFailed => f_calls' = f_calls) /\ (WriteFailed => p_calls' = p_calls)]_vars

\* C31 witness: the second window of a fetch and the second chunk of a push
\* both failed after the first ones went through.
C31_Witness ==
  /\ ReadFailed /\ Count(f_calls, "read") + Count(f_calls, "slice") = 2
  /\ WriteFailed /\ Count(p_calls, "addData") = 2

====
